---- MODULE Spec2Model ----
(***************************************************************************)
(* Feed scan and extraction engine of instagram-download.                  *)
(*                                                                         *)
(*   lib/date_utils.py      is_within_hours (recency classifier)           *)
(*   lib/post_extractor.py  PostExtractor.extract_recent_posts and the      *)
(*                          helpers it calls (scan controller)             *)
(*   lib/browser.py         BrowserHandler.navigate / scroll_down           *)
(*   config/page_selectors.py  TIMESTAMP_INDICATORS,                        *)
(*                             POST_EXTRACTION_STRATEGY                     *)
(*                                                                         *)
(* A Python str is modelled as a sequence of one-character strings, so     *)
(* that `tok in text` is a real substring test and text.lower() a real     *)
(* per-character map.  A Chinese character is written as one atom          *)
(* "zh_<pinyin>" (the module is ASCII only): "zh_tian" is U+5929 (day),    *)
(* <<"zh_jin", "zh_tian">> is "today", <<"zh_zuo", "zh_tian">> is          *)
(* "yesterday".                                                            *)
(***************************************************************************)
EXTENDS Integers, Sequences, FiniteSets, TLC

VARIABLES
    \* ---- one call of is_within_hours (date_utils.py) ----
    timestamp,          \* the instant supplied: [age, aware]
    hours_threshold,    \* the threshold supplied
    timestamp_text,     \* the display text supplied (NoneText when absent)
    verdict,            \* "pending" before the call, then its outcome
    \* ---- one call of extract_recent_posts (post_extractor.py) ----
    pc,                 \* position of the scan in extract_recent_posts
    HOURS_THRESHOLD,    \* config.HOURS_THRESHOLD of this run
    post_elements,      \* result of _get_post_elements(): hrefs in DOM order
    pinned_posts,       \* result of _identify_pinned_posts()
    i,                  \* loop index into post_elements (1-based)
    processed_count,    \* local processed_count
    recent_posts,       \* local recent_posts: the index of each post kept
    post_data,          \* post_data of the iteration under way (NoData: none)
    dialogOpen,         \* the page shows a detail view
    \* ---- history of the scan (what the browser was asked to do) ----
    clicked,            \* indices of the candidates click() was called on, in order
    closePending,       \* a candidate was clicked and no close was called since
    oldSeenAt,          \* first index extracted with an 'old' token in its
                        \* display text (0: none)
    staleSeen,          \* some extracted candidate was judged out-of-window
    misread,            \* clicked indices whose href matches pinned_posts and
                        \* whose href read raised in _is_pinned_post
    navigated,          \* outcome of page.goto in BrowserHandler.navigate
    noImageMatch,       \* _get_post_elements ran and no strategy had an
                        \* image-bearing match
    scrollCalls,        \* number of scroll_down() calls
    locateCalls,        \* number of _get_post_elements() calls
    pinnedCalls,        \* number of _identify_pinned_posts() calls
    \* ---- one call of parse_instagram_timestamp (date_utils.py) ----
    now,                \* datetime.datetime.now() of the call
    dateutil,           \* what dateutil's parser.parse does with the text
    parsed,             \* "pending" before the call, then its outcome
    \* ---- one call of _extract_image_urls (post_extractor.py) ----
    cpc,                \* position in _extract_image_urls
    carousel,           \* the post shown in the detail view
    showing,            \* which image of the post the detail view shows
    step,               \* iterations of the carousel loop begun
    image_urls,         \* local image_urls
    \* ---- one call of _identify_pinned_posts (post_extractor.py) ----
    strategies,         \* POST_EXTRACTION_STRATEGY["pinned_post_detection_priority"]
    profile_page,       \* what the profile page answers to the queries
    chain,              \* "pending" before the call, then what the call did
    \* ---- one run of main (main.py) ----
    mpc,                \* position in main
    USERS_TO_MONITOR,   \* config.USERS_TO_MONITOR of this run
    user_idx,           \* position of the for loop in USERS_TO_MONITOR
    total_downloaded,   \* local total_downloaded
    handled,            \* the profiles handled so far, in order: what
                        \* happened and the count returned
    \* ---- one call of _get_post_elements (post_extractor.py) ----
    feed_page,          \* what the profile page answers to the link queries
    located,            \* "pending" before the call, then what the call did
    \* ---- one call of _extract_post_data (post_extractor.py) ----
    detail_view,        \* what the detail view answers to the queries
    extracted,          \* "pending" before the call, then what the call did
    \* ---- calls of _close_post_dialog (post_extractor.py) ----
    close_pc,           \* position in _close_post_dialog ("idle": between calls)
    close_calls,        \* number of calls begun
    releases,           \* per call, what the query gave and the release attempts issued
    \* ---- one call of _is_pinned_post (post_extractor.py) ----
    candidate_href,     \* href of post_element; <<>> when the attribute is missing
    pinned_list,        \* the pinned_posts argument
    href_read,          \* page.evaluate returned (FALSE: it raised)
    is_pinned,          \* "pending", then the value returned
    \* ---- the URL taken from one image node by _extract_image_urls (post_extractor.py) ----
    image_node,         \* the img element: its srcset candidates, how they are written, its src
    call_site,          \* "first" (lines 780-798) or "loop" (lines 850-865)
    collected,          \* image_urls before and after
    url_taken           \* "pending", then the URL taken (NoneText: none)

recencyVars == <<timestamp, hours_threshold, timestamp_text, verdict>>

\* What the steps before the loop set.
setupVars ==
    <<HOURS_THRESHOLD, post_elements, pinned_posts, navigated, noImageMatch,
      scrollCalls, locateCalls, pinnedCalls>>

\* What an iteration of the loop sets.
loopVars ==
    <<i, processed_count, recent_posts, post_data, dialogOpen, clicked,
      closePending, oldSeenAt, staleSeen, misread>>

scanVars == <<pc, setupVars, loopVars>>

parseVars == <<now, dateutil, parsed>>

\* The variables of the components other than the classifier and the scan.
carouselVars == <<cpc, carousel, showing, step, image_urls>>
pinnedVars == <<strategies, profile_page, chain>>
runVars == <<mpc, USERS_TO_MONITOR, user_idx, total_downloaded, handled>>
locateVars == <<feed_page, located>>
extractVars == <<detail_view, extracted>>
closeVars == <<close_pc, close_calls, releases>>
matchVars == <<candidate_href, pinned_list, href_read, is_pinned>>
choiceVars == <<image_node, call_site, collected, url_taken>>
restVars == <<parseVars, carouselVars, pinnedVars, runVars, locateVars, extractVars, closeVars, matchVars, choiceVars>>

vars == <<recencyVars, scanVars, restVars>>

(***************************************************************************)
(* Python str operations.                                                  *)
(***************************************************************************)

\* `tok in text` for two str values.
Contains(text, tok) ==
    \E k \in 0..(Len(text) - Len(tok)) :
        SubSeq(text, k + 1, k + Len(tok)) = tok

\* text.endswith(suffix)
EndsWith(text, suffix) ==
    /\ Len(suffix) <= Len(text)
    /\ SubSeq(text, Len(text) - Len(suffix) + 1, Len(text)) = suffix

UpperLetters ==
    <<"A", "B", "C", "D", "E", "F", "G", "H", "I", "J", "K", "L", "M",
      "N", "O", "P", "Q", "R", "S", "T", "U", "V", "W", "X", "Y", "Z">>

LowerLetters ==
    <<"a", "b", "c", "d", "e", "f", "g", "h", "i", "j", "k", "l", "m",
      "n", "o", "p", "q", "r", "s", "t", "u", "v", "w", "x", "y", "z">>

LowerChar(c) ==
    IF \E k \in 1..Len(UpperLetters) : UpperLetters[k] = c
    THEN LowerLetters[CHOOSE k \in 1..Len(UpperLetters) : UpperLetters[k] = c]
    ELSE c

\* text.lower()
Lower(text) == [k \in 1..Len(text) |-> LowerChar(text[k])]

\* any(indicator in text for indicator in indicators); text is evaluated
\* once.
AnyIn(indicators, text) ==
    \E str \in {text} :
        \E k \in 1..Len(indicators) : Contains(str, indicators[k])

\* The value None where a str is expected.
NoneText == <<"<None>">>

\* Truth value of `if timestamp_text:` (None and '' are falsy).
Truthy(text) == text # NoneText /\ text # <<>>

(***************************************************************************)
(* TIMESTAMP_INDICATORS (config/page_selectors.py).                        *)
(***************************************************************************)

RecentIndicators ==
    << <<"zh_xiao", "zh_shi">>,
       <<"h", "o", "u", "r">>,
       <<"h", "r">>,
       <<"zh_fen", "zh_zhong">>,
       <<"m", "i", "n", "u", "t", "e">>,
       <<"m", "i", "n">>,
       <<"zh_miao">>,
       <<"s", "e", "c", "o", "n", "d">>,
       <<"s", "e", "c">>,
       <<"zh_gang", "zh_gang">>,
       <<"j", "u", "s", "t", " ", "n", "o", "w">>,
       <<"zh_jin", "zh_tian">>,
       <<"t", "o", "d", "a", "y">> >>

OldIndicators ==
    << <<"zh_tian">>,
       <<"d", "a", "y">>,
       <<"d", "a", "y", "s">>,
       <<"zh_zhou">>,
       <<"w", "e", "e", "k">>,
       <<"w", "e", "e", "k", "s">>,
       <<"w", "k">>,
       <<"zh_yue">>,
       <<"m", "o", "n", "t", "h">>,
       <<"m", "o", "n", "t", "h", "s">>,
       <<"zh_nian">>,
       <<"y", "e", "a", "r">>,
       <<"y", "e", "a", "r", "s">>,
       <<"y", "r">> >>

\* TIMESTAMP_INDICATORS["special_cases"]["yesterday"]
YesterdayThreshold == 48

YesterdayZh == <<"zh_zuo", "zh_tian">>
YesterdayEn == <<"y", "e", "s", "t", "e", "r", "d", "a", "y">>

\* (YesterdayZh in timestamp_text or 'yesterday' in timestamp_text): the text is
\* NOT lower-cased in this test.
NamesYesterday(text) == Contains(text, YesterdayZh) \/ Contains(text, YesterdayEn)

(***************************************************************************)
(* is_within_hours (date_utils.py).  An instant is [age, aware]: age is    *)
(* (now - instant) in hours, aware says the datetime carries a timezone    *)
(* (dateutil's parse of an ISO string ending in Z); now is naive, and      *)
(* naive - aware raises TypeError in Python.                               *)
(***************************************************************************)

\* Mutant: the difference is taken in days (total_seconds() / 86400).
NumericWithinDays(ts, threshold) ==
    IF ts.aware THEN "TypeError"
    ELSE IF ts.age <= threshold * 24 THEN "True" ELSE "False"

\* Mutant: strict comparison.
NumericWithinStrict(ts, threshold) ==
    IF ts.aware THEN "TypeError"
    ELSE IF ts.age < threshold THEN "True" ELSE "False"

\* now - timestamp; time_diff.total_seconds() / 3600 <= hours_threshold
NumericWithin(ts, threshold) ==
    IF ts.aware THEN "TypeError"
    ELSE IF ts.age <= threshold THEN "True" ELSE "False"

\* Mutant of is_within_hours: the 'old' vocabulary is tested before the
\* 'recent' one.
is_within_hours_OldFirst(ts, threshold, text) ==
    IF Truthy(text)
    THEN IF NamesYesterday(text)
         THEN (IF threshold >= YesterdayThreshold THEN "True" ELSE "False")
         ELSE IF AnyIn(OldIndicators, Lower(text)) THEN "False"
         ELSE IF AnyIn(RecentIndicators, Lower(text)) THEN "True"
         ELSE NumericWithin(ts, threshold)
    ELSE NumericWithin(ts, threshold)

\* Mutant of is_within_hours: the 'old' vocabulary test is dropped, so an
\* old text falls through to the numeric comparison.
is_within_hours_NoOld(ts, threshold, text) ==
    IF Truthy(text)
    THEN IF AnyIn(RecentIndicators, Lower(text)) THEN "True"
         ELSE IF NamesYesterday(text)
         THEN (IF threshold >= YesterdayThreshold THEN "True" ELSE "False")
         ELSE NumericWithin(ts, threshold)
    ELSE NumericWithin(ts, threshold)

\* Mutant of is_within_hours: the 'yesterday' threshold is compared strictly.
is_within_hours_YesterdayStrict(ts, threshold, text) ==
    IF Truthy(text)
    THEN IF AnyIn(RecentIndicators, Lower(text)) THEN "True"
         ELSE IF NamesYesterday(text)
         THEN (IF threshold > YesterdayThreshold THEN "True" ELSE "False")
         ELSE IF AnyIn(OldIndicators, Lower(text)) THEN "False"
         ELSE NumericWithin(ts, threshold)
    ELSE NumericWithin(ts, threshold)

is_within_hours(ts, threshold, text) ==
    IF Truthy(text)
    THEN IF AnyIn(RecentIndicators, Lower(text)) THEN "True"
         ELSE IF NamesYesterday(text)
         THEN (IF threshold >= YesterdayThreshold THEN "True" ELSE "False")
         ELSE IF AnyIn(OldIndicators, Lower(text)) THEN "False"
         ELSE NumericWithin(ts, threshold)
    ELSE NumericWithin(ts, threshold)

(***************************************************************************)
(* The inputs of one is_within_hours call.                                 *)
(***************************************************************************)

Prefixes ==
    { <<>>, <<"3", " ">>, <<"t", "o">>, <<"y", "e", "s", "t", "e", "r">>,
      <<"Y", "e", "s", "t", "e", "r">>, <<"zh_zuo">>, <<"zh_jin">> }

Suffixes == { <<>>, <<" ", "a", "g", "o">> }

\* Words that are in neither vocabulary ("3h", "3d", "3w": the short forms).
PlainWords == { <<>>, <<"h">>, <<"d">>, <<"w">> }

Words ==
    {RecentIndicators[k] : k \in 1..Len(RecentIndicators)}
        \cup {OldIndicators[k] : k \in 1..Len(OldIndicators)}
        \cup PlainWords

\* "TODAY", "2 DAYS", "3 HOURS", "Monday", "January 5", "2024<nian>1<yue>5<ri>"
ExtraTexts ==
    { <<"T", "O", "D", "A", "Y">>,
      <<"2", " ", "D", "A", "Y", "S">>,
      <<"3", " ", "H", "O", "U", "R", "S">>,
      <<"M", "o", "n", "d", "a", "y">>,
      <<"J", "a", "n", "u", "a", "r", "y", " ", "5">>,
      <<"2", "0", "2", "4", "zh_nian", "1", "zh_yue", "5", "zh_ri">> }

Texts ==
    {p \o w \o s : p \in Prefixes, w \in Words, s \in Suffixes}
        \cup ExtraTexts \cup {NoneText}

Thresholds == {0, 23, 24, 47, 48, 72}

Ages == {-1, 0, 23, 24, 25, 47, 48, 49, 100}

Timestamps ==
    [age : Ages, aware : {FALSE}] \cup [age : {1}, aware : {TRUE}]

(***************************************************************************)
(* The page as _get_post_elements sees it, and _get_post_elements.          *)
(***************************************************************************)

\* len(INSTAGRAM_SELECTORS["post_link_selectors"])
NumSelectors == 6

\* Largest number of image-bearing post links on a profile page.
MaxFeed == 6

PostIds == <<"1", "2", "3", "4", "5", "6", "7", "8", "9", "10", "11", "12">>

\* The href attribute of the k-th post link of the feed: "/p/<id>/".
PostHref(k) == <<"/", "p", "/", PostIds[k], "/">>

\* A navigation link without an img descendant.
NavLink == [href |-> <<"/", "e", "x", "p", "l", "o", "r", "e", "/">>, has_img |-> FALSE]

FeedLinks(n) == [k \in 1..n |-> [href |-> PostHref(k), has_img |-> TRUE]]

\* A page with n post links that selector number s is the first to match
\* with an image (s = NumSelectors + 1: only the XPath strategy finds them;
\* s = NumSelectors + 2: nothing finds them).  The selectors before s match
\* the image-less navigation link, or raise when `broken`.
FeedPage(n, s, broken) ==
    [ selectors |->
        [k \in 1..NumSelectors |->
            IF k < s THEN [raises |-> broken, matches |-> <<NavLink>>]
            ELSE IF k = s THEN [raises |-> FALSE, matches |-> <<NavLink>> \o FeedLinks(n)]
            ELSE [raises |-> FALSE, matches |-> FeedLinks(n)]],
      xpath |->
        [raises |-> broken /\ s = NumSelectors + 2,
         links |-> IF s = NumSelectors + 1 THEN FeedLinks(n) ELSE <<>>] ]

ScanPages ==
    {FeedPage(n, s, b) : n \in 0..MaxFeed, s \in 1..(NumSelectors + 2), b \in BOOLEAN}

HrefsOf(elements) == [k \in 1..Len(elements) |-> elements[k].href]

\* valid_elements of one selector: its matches that have an img descendant
\* (none when the query raises: the except clause continues with the next).
ValidElements(page, s) ==
    IF page.selectors[s].raises THEN <<>>
    ELSE SelectSeq(page.selectors[s].matches, LAMBDA e : e.has_img)

\* No strategy of _get_post_elements yields an image-bearing match: every
\* selector raises or has no match with an img descendant, and the XPath
\* query raises or resolves no post link.
NoStrategyYields(page) ==
    /\ \A s \in 1..NumSelectors : ValidElements(page, s) = <<>>
    /\ (page.xpath.raises \/ page.xpath.links = <<>>)

\* Mutant: the img filter is dropped.
GetPostElementsNoFilter(page) ==
    LET winners == {s \in 1..NumSelectors :
                        ~page.selectors[s].raises /\ page.selectors[s].matches # <<>>}
    IN  IF winners # {}
        THEN HrefsOf(page.selectors[CHOOSE s \in winners : \A t \in winners : s <= t].matches)
        ELSE IF page.xpath.raises THEN <<>>
        ELSE HrefsOf(page.xpath.links)

\* Mutant: the last selector with an image-bearing match wins.
GetPostElementsLastWins(page) ==
    LET winners == {s \in 1..NumSelectors : ValidElements(page, s) # <<>>}
    IN  IF winners # {}
        THEN HrefsOf(ValidElements(page, CHOOSE s \in winners : \A t \in winners : s >= t))
        ELSE IF page.xpath.raises THEN <<>>
        ELSE HrefsOf(page.xpath.links)

\* _get_post_elements: each element handle is represented by its href.
GetPostElements(page) ==
    LET winners == {s \in 1..NumSelectors : ValidElements(page, s) # <<>>}
    IN  IF winners # {}
        THEN HrefsOf(ValidElements(page, CHOOSE s \in winners : \A t \in winners : s <= t))
        ELSE IF page.xpath.raises THEN <<>>
        ELSE HrefsOf(page.xpath.links)

(***************************************************************************)
(* Pinned entries: _identify_pinned_posts and _is_pinned_post.             *)
(***************************************************************************)

\* POST_EXTRACTION_STRATEGY["pinned_post_detection_priority"]
Strategies ==
    <<"icon_matching", "spatial_proximity", "dom_traversal", "first_post_fallback">>

InStrategies(name) == \E k \in 1..Len(Strategies) : Strategies[k] = name

\* The list without the later repetitions of an element
\* (`if href not in pinned_posts: pinned_posts.append(href)`).
RECURSIVE Dedup(_)
Dedup(list) ==
    IF list = <<>> THEN <<>>
    ELSE LET front == Dedup(SubSeq(list, 1, Len(list) - 1))
             last == list[Len(list)]
         IN  IF \E k \in 1..Len(front) : front[k] = last
             THEN front ELSE Append(front, last)

\* Mutant: the result of the script is dropped.
identify_pinned_posts_Empty(dom) == <<>>

\* _identify_pinned_posts on a page `dom`:
\*   dom.icon      outcome of the icon_matching script: [raises, hrefs]
\*   dom.markers   len(pinned_icon_elements)
\*   dom.spatial   hrefs of the candidates nearest to each marker
\*   dom.traversal outcome of the dom_traversal script: [raises, hrefs]
\*   dom.all_post_elements  result of its own _get_post_elements() call
\* The icon_matching branch returns on both of its paths (lines 311, 317).
identify_pinned_posts(dom) ==
    IF InStrategies("icon_matching")
    THEN IF dom.icon.raises THEN <<>> ELSE dom.icon.hrefs
    ELSE LET p2 == IF InStrategies("spatial_proximity") /\ dom.markers > 0
                   THEN Dedup(SelectSeq(dom.spatial, LAMBDA h : Truthy(h)))
                   ELSE <<>>
             p3 == IF InStrategies("dom_traversal") /\ p2 = <<>> /\ dom.markers > 0
                      /\ ~dom.traversal.raises
                   THEN Dedup(dom.traversal.hrefs)
                   ELSE p2
             p4 == IF InStrategies("first_post_fallback") /\ p3 = <<>>
                      /\ Len(dom.all_post_elements) > 0
                      /\ Truthy(dom.all_post_elements[1])
                   THEN <<dom.all_post_elements[1]>>
                   ELSE p3
         IN  p4

SlashP == <<"/", "p", "/">>
SlashReel == <<"/", "r", "e", "e", "l", "/">>

\* Least k such that tok occurs in text at k (Contains(text, tok) assumed).
IndexOf(text, tok) ==
    CHOOSE k \in 1..Len(text) :
        /\ k + Len(tok) - 1 <= Len(text)
        /\ SubSeq(text, k, k + Len(tok) - 1) = tok
        /\ \A j \in 1..(k - 1) : SubSeq(text, j, j + Len(tok) - 1) # tok

\* text.split(tok)[1].split('/')[0]
IdAfter(text, tok) ==
    LET rest == SubSeq(text, IndexOf(text, tok) + Len(tok), Len(text))
        stops == {k \in 1..Len(rest) : rest[k] = "/"}
    IN  IF stops = {} THEN rest
        ELSE SubSeq(rest, 1, (CHOOSE k \in stops : \A j \in stops : k <= j) - 1)

\* Mutant: only equal strings match.
PinnedUrlMatches_EqualOnly(href, pinned_url) == href = pinned_url

\* The body of the loop of _is_pinned_post for one pinned_url.
PinnedUrlMatches(href, pinned_url) ==
    \/ EndsWith(pinned_url, href)
    \/ Contains(pinned_url, href)
    \/ Contains(href, pinned_url)
    \/ /\ Contains(href, SlashP) /\ Contains(pinned_url, SlashP)
       /\ IdAfter(href, SlashP) = IdAfter(pinned_url, SlashP)
    \/ /\ Contains(href, SlashReel) /\ Contains(pinned_url, SlashReel)
       /\ IdAfter(href, SlashReel) = IdAfter(pinned_url, SlashReel)

HrefMatchesPinned(href, pinned) ==
    \E k \in 1..Len(pinned) : PinnedUrlMatches(href, pinned[k])

\* Mutant: nothing is ever recognised as pinned.
is_pinned_post_Never(href, pinned, readOk) == FALSE

\* _is_pinned_post: readOk is whether page.evaluate returned the href (the
\* except clause returns False).
is_pinned_post(href, pinned, readOk) ==
    IF pinned = <<>> THEN FALSE
    ELSE IF ~readOk THEN FALSE
    ELSE IF ~Truthy(href) THEN FALSE
    ELSE HrefMatchesPinned(href, pinned)

(***************************************************************************)
(* Calendar arithmetic of datetime, timedelta and relativedelta.  A         *)
(* datetime is [year, month, day, hour, minute, second] (microseconds are  *)
(* left out); the calendar covers the years of CalendarYears.              *)
(***************************************************************************)

CalendarYears == 2020..2026

FirstYear == CHOOSE y \in CalendarYears : \A z \in CalendarYears : y <= z

IsLeap(y) == (y % 4 = 0 /\ y % 100 # 0) \/ y % 400 = 0

DaysInYear(y) == IF IsLeap(y) THEN 366 ELSE 365

DaysInMonth(y, m) ==
    IF m = 2 THEN (IF IsLeap(y) THEN 29 ELSE 28)
    ELSE IF m \in {4, 6, 9, 11} THEN 30 ELSE 31

RECURSIVE DaysBeforeYear(_)
DaysBeforeYear(y) ==
    IF y <= FirstYear THEN 0 ELSE DaysBeforeYear(y - 1) + DaysInYear(y - 1)

RECURSIVE DaysBeforeMonth(_, _)
DaysBeforeMonth(y, m) ==
    IF m <= 1 THEN 0 ELSE DaysBeforeMonth(y, m - 1) + DaysInMonth(y, m - 1)

DateTime(y, mo, d, h, mi, s) ==
    [year |-> y, month |-> mo, day |-> d, hour |-> h, minute |-> mi, second |-> s]

\* Seconds from the first instant of the calendar to dt.
ToSeconds(dt) ==
    (((DaysBeforeYear(dt.year) + DaysBeforeMonth(dt.year, dt.month) + dt.day - 1) * 24
        + dt.hour) * 60 + dt.minute) * 60 + dt.second

\* The datetime that lies n seconds after the first instant of the calendar.
FromSeconds(n) ==
    LET days == n \div 86400
        rest == n % 86400
        y == CHOOSE yy \in CalendarYears :
                 DaysBeforeYear(yy) <= days /\ days < DaysBeforeYear(yy) + DaysInYear(yy)
        doy == days - DaysBeforeYear(y)
        mo == CHOOSE mm \in 1..12 :
                  /\ DaysBeforeMonth(y, mm) <= doy
                  /\ doy < DaysBeforeMonth(y, mm) + DaysInMonth(y, mm)
    IN  DateTime(y, mo, doy - DaysBeforeMonth(y, mo) + 1,
                 rest \div 3600, (rest % 3600) \div 60, rest % 60)

\* dt - datetime.timedelta(seconds = n)
MinusSeconds(dt, n) == FromSeconds(ToSeconds(dt) - n)

\* dt - relativedelta(months = n): the day is clipped to the month's length.
MinusMonths(dt, n) ==
    LET total == dt.year * 12 + (dt.month - 1) - n
        y == total \div 12
        mo == (total % 12) + 1
    IN  [dt EXCEPT !.year = y, !.month = mo,
                   !.day = IF dt.day <= DaysInMonth(y, mo) THEN dt.day
                           ELSE DaysInMonth(y, mo)]

\* dt - relativedelta(years = n)
MinusYears(dt, n) == MinusMonths(dt, 12 * n)

\* datetime.datetime(y, mo, d, h, mi) and datetime.replace accept these
\* fields (ValueError otherwise).
ValidFields(y, mo, d, h, mi) ==
    /\ y \in 1..9999
    /\ mo \in 1..12
    /\ d \in 1..DaysInMonth(y, mo)
    /\ h \in 0..23
    /\ mi \in 0..59

NoDate == DateTime(0, 0, 0, 0, 0, 0)

\* Outcomes of a call: a datetime returned, or an exception raised.
Returns(dt) == [raises |-> "none", dt |-> dt]
Raises(e) == [raises |-> e, dt |-> NoDate]

(***************************************************************************)
(* The regular expressions of parse_instagram_timestamp (re.search).       *)
(***************************************************************************)

Digits == <<"0", "1", "2", "3", "4", "5", "6", "7", "8", "9">>

IsDigit(c) == \E k \in 1..Len(Digits) : Digits[k] = c

DigitValue(c) == (CHOOSE k \in 1..Len(Digits) : Digits[k] = c) - 1

\* text[k], or "" past the ends of text.
At(text, k) == IF k \in 1..Len(text) THEN text[k] ELSE ""

\* \s
IsSpace(c) == c = " "

\* int(digits)
RECURSIVE DecimalValue(_)
DecimalValue(digits) ==
    IF digits = <<>> THEN 0
    ELSE 10 * DecimalValue(SubSeq(digits, 1, Len(digits) - 1))
            + DigitValue(digits[Len(digits)])

\* Last position of the run of digits that position p is in (p a digit).
RECURSIVE DigitRunEnd(_, _)
DigitRunEnd(text, p) ==
    IF IsDigit(At(text, p + 1)) THEN DigitRunEnd(text, p + 1) ELSE p

\* First position at or after p that holds no whitespace.
RECURSIVE SkipSpace(_, _)
SkipSpace(text, p) ==
    IF IsSpace(At(text, p)) THEN SkipSpace(text, p + 1) ELSE p

\* One of the alternatives `units` is at position p of text.
UnitAt(text, p, units) ==
    \E k \in 1..Len(units) :
        /\ p + Len(units[k]) - 1 <= Len(text)
        /\ SubSeq(text, p, p + Len(units[k]) - 1) = units[k]

Least(S) == CHOOSE p \in S : \A q \in S : p <= q

\* Start positions of the matches of (\d+)\s*(u1|u2|...): \d+ takes the run
\* of digits to its end and \s* the whole run of whitespace, since no
\* alternative begins with a digit or a space.
NumberUnitStarts(text, units) ==
    {p \in 1..Len(text) :
        /\ IsDigit(text[p])
        /\ UnitAt(text, SkipSpace(text, DigitRunEnd(text, p) + 1), units)}

\* re.search(r'(\d+)\s*(u1|u2|...)', text) is not None
HasNumberUnit(text, units) == NumberUnitStarts(text, units) # {}

\* Mutant: the group is (\d), a single digit.
NumberBeforeOneDigit(text, units) ==
    LET p == Least(NumberUnitStarts(text, units))
    IN  DigitValue(text[DigitRunEnd(text, p)])

\* int(match.group(1)) of the leftmost match.
NumberBefore(text, units) ==
    LET p == Least(NumberUnitStarts(text, units))
    IN  DecimalValue(SubSeq(text, p, DigitRunEnd(text, p)))

\* Start positions of the matches of (\d+):(\d+)
ClockStarts(text) ==
    {p \in 1..Len(text) :
        /\ IsDigit(text[p])
        /\ At(text, DigitRunEnd(text, p) + 1) = ":"
        /\ IsDigit(At(text, DigitRunEnd(text, p) + 2))}

HasClock(text) == ClockStarts(text) # {}

ClockHour(text) ==
    LET p == Least(ClockStarts(text))
    IN  DecimalValue(SubSeq(text, p, DigitRunEnd(text, p)))

ClockMinute(text) ==
    LET p == Least(ClockStarts(text))
        q == DigitRunEnd(text, p) + 2
    IN  DecimalValue(SubSeq(text, q, DigitRunEnd(text, q)))

\* The three digit runs of a <digits>nian<digits>yue<digits>ri match that
\* starts at p: [ok, y1, y2, m1, m2, d1, d2] (first and last positions).
ZhDateAt(text, p) ==
    LET y2 == DigitRunEnd(text, p)
        m1 == y2 + 2
        m2 == DigitRunEnd(text, m1)
        d1 == m2 + 2
        d2 == DigitRunEnd(text, d1)
    IN  [ok |-> /\ IsDigit(At(text, p))
                /\ At(text, y2 + 1) = "zh_nian"
                /\ IsDigit(At(text, m1))
                /\ At(text, m2 + 1) = "zh_yue"
                /\ IsDigit(At(text, d1))
                /\ At(text, d2 + 1) = "zh_ri",
         y1 |-> p, y2 |-> y2, m1 |-> m1, m2 |-> m2, d1 |-> d1, d2 |-> d2]

\* re.search(r'\d+nian\d+yue\d+ri', text) is not None
HasZhDate(text) == \E p \in 1..Len(text) : ZhDateAt(text, p).ok

\* Start positions of the matches of (\d{4})nian(\d{1,2})yue(\d{1,2})ri
ZhDate4Starts(text) ==
    {p \in 1..Len(text) :
        LET z == ZhDateAt(text, p)
        IN  /\ z.ok
            /\ z.y2 - z.y1 + 1 = 4
            /\ z.m2 - z.m1 + 1 <= 2
            /\ z.d2 - z.d1 + 1 <= 2}

(***************************************************************************)
(* parse_instagram_timestamp (date_utils.py, lines 38-122).                *)
(***************************************************************************)

NowTerms ==
    << <<"zh_gang", "zh_gang">>,
       <<"j", "u", "s", "t", " ", "n", "o", "w">>,
       <<"zh_ji", "zh_miao">>,
       <<"s", "e", "c", "o", "n", "d", "s">>,
       <<"s", "e", "c", "o", "n", "d">>,
       <<"s", "e", "c">> >>

MinuteUnits ==
    << <<"zh_fen", "zh_zhong">>,
       <<"m", "i", "n", "u", "t", "e", "s">>,
       <<"m", "i", "n", "u", "t", "e">>,
       <<"m", "i", "n">> >>

HourUnits ==
    << <<"zh_xiao", "zh_shi">>,
       <<"h", "o", "u", "r", "s">>,
       <<"h", "o", "u", "r">>,
       <<"h", "r">> >>

YesterdayTerms == <<YesterdayZh, YesterdayEn>>

TodayTerms ==
    << <<"zh_jin", "zh_tian">>,
       <<"t", "o", "d", "a", "y">> >>

DayUnits ==
    << <<"zh_tian">>,
       <<"d", "a", "y", "s">>,
       <<"d", "a", "y">> >>

WeekUnits ==
    << <<"zh_zhou">>,
       <<"zh_xing", "zh_qi">>,
       <<"w", "e", "e", "k", "s">>,
       <<"w", "e", "e", "k">>,
       <<"w", "k">> >>

MonthUnits ==
    << <<"zh_yue">>,
       <<"m", "o", "n", "t", "h", "s">>,
       <<"m", "o", "n", "t", "h">> >>

YearUnits ==
    << <<"zh_nian">>,
       <<"y", "e", "a", "r", "s">>,
       <<"y", "e", "a", "r">>,
       <<"y", "r">> >>

\* Lines 70-77: now.replace(hour, minute, second=0) for a 'today' text.
ParseToday(text, t) ==
    IF HasClock(text)
    THEN IF ValidFields(t.year, t.month, t.day, ClockHour(text), ClockMinute(text))
         THEN Returns([t EXCEPT !.hour = ClockHour(text),
                                !.minute = ClockMinute(text), !.second = 0])
         ELSE Raises("ValueError")
    ELSE Returns([t EXCEPT !.hour = 0, !.minute = 0, !.second = 0])

\* Lines 105-113: datetime.datetime(year, month, day[, hour, minute]).
ParseZhDate(text) ==
    LET z == ZhDateAt(text, Least(ZhDate4Starts(text)))
        y == DecimalValue(SubSeq(text, z.y1, z.y2))
        mo == DecimalValue(SubSeq(text, z.m1, z.m2))
        d == DecimalValue(SubSeq(text, z.d1, z.d2))
        h == IF HasClock(text) THEN ClockHour(text) ELSE 0
        mi == IF HasClock(text) THEN ClockMinute(text) ELSE 0
    IN  IF ValidFields(y, mo, d, h, mi)
        THEN Returns(DateTime(y, mo, d, h, mi, 0))
        ELSE Raises("ValueError")

\* Mutant: the hours branch subtracts minutes.
parse_instagram_timestamp_HoursAsMinutes(text, t, du) ==
    IF HasNumberUnit(Lower(text), HourUnits)
    THEN Returns(MinusSeconds(t, 60 * NumberBefore(Lower(text), HourUnits)))
    ELSE Returns(t)

\* Mutant: the days rule is tried before every other rule.
parse_instagram_timestamp_DaysFirst(text, t, du) ==
    IF HasNumberUnit(Lower(text), DayUnits)
    THEN Returns(MinusSeconds(t, 86400 * NumberBefore(Lower(text), DayUnits)))
    ELSE IF HasNumberUnit(Lower(text), HourUnits)
    THEN Returns(MinusSeconds(t, 3600 * NumberBefore(Lower(text), HourUnits)))
    ELSE Returns(t)

\* t is datetime.datetime.now(); du is what parser.parse(text) does:
\* [raises, dt].
parse_instagram_timestamp(text, t, du) ==
    LET low == Lower(text)
    IN  IF AnyIn(NowTerms, low) THEN Returns(t)
        ELSE IF HasNumberUnit(low, MinuteUnits)
        THEN Returns(MinusSeconds(t, 60 * NumberBefore(low, MinuteUnits)))
        ELSE IF HasNumberUnit(low, HourUnits)
        THEN Returns(MinusSeconds(t, 3600 * NumberBefore(low, HourUnits)))
        ELSE IF AnyIn(YesterdayTerms, low) THEN Returns(MinusSeconds(t, 86400))
        ELSE IF AnyIn(TodayTerms, low) THEN ParseToday(text, t)
        ELSE IF HasNumberUnit(low, DayUnits)
        THEN Returns(MinusSeconds(t, 86400 * NumberBefore(low, DayUnits)))
        ELSE IF HasNumberUnit(low, WeekUnits)
        THEN Returns(MinusSeconds(t, 7 * 86400 * NumberBefore(low, WeekUnits)))
        ELSE IF HasNumberUnit(low, MonthUnits) /\ ~HasZhDate(text)
        THEN Returns(MinusMonths(t, NumberBefore(low, MonthUnits)))
        ELSE IF HasNumberUnit(low, YearUnits) /\ ~HasZhDate(text)
        THEN Returns(MinusYears(t, NumberBefore(low, YearUnits)))
        ELSE IF ZhDate4Starts(text) # {} THEN ParseZhDate(text)
        ELSE IF du.raises THEN Returns(t)
        ELSE Returns(du.dt)

(***************************************************************************)
(* The inputs of one parse_instagram_timestamp call.                       *)
(***************************************************************************)

\* The counts N of the relative texts, as written and as numbers.
Counts ==
    { [text |-> <<"0">>, value |-> 0],
      [text |-> <<"1">>, value |-> 1],
      [text |-> <<"2">>, value |-> 2],
      [text |-> <<"3">>, value |-> 3],
      [text |-> <<"1", "2">>, value |-> 12],
      [text |-> <<"3", "6">>, value |-> 36] }

CountedUnits ==
    { <<"h", "o", "u", "r", "s">>,
      <<"h", "o", "u", "r">>,
      <<"zh_xiao", "zh_shi">>,
      <<"d", "a", "y", "s">>,
      <<"d", "a", "y">>,
      <<"zh_tian">>,
      <<"m", "i", "n", "u", "t", "e", "s">>,
      <<"w", "e", "e", "k", "s">> }

\* "<N><sep><unit>" for the counts, separators and units above.
RelativeTexts ==
    {c.text \o sep \o u : c \in Counts, sep \in {<<>>, <<" ">>}, u \in CountedUnits}

OtherTexts ==
    { <<"j", "u", "s", "t", " ", "n", "o", "w">>,
      <<"3", "0", " ", "s", "e", "c", "o", "n", "d", "s">>,
      <<"y", "e", "s", "t", "e", "r", "d", "a", "y">>,
      <<"zh_zuo", "zh_tian">>,
      <<"t", "o", "d", "a", "y">>,
      <<"zh_jin", "zh_tian">>,
      <<"t", "o", "d", "a", "y", " ", "0", "9", ":", "3", "0">>,
      <<"t", "o", "d", "a", "y", " ", "2", "5", ":", "0", "0">>,
      <<"t", "o", "d", "a", "y", " ", "1", "0", ":", "7", "5">>,
      <<"zh_jin", "zh_tian", " ", "2", "3", ":", "5", "9">>,
      <<"2", "0", "2", "4", "zh_nian", "1", "zh_yue", "5", "zh_ri">>,
      <<"2", "0", "2", "4", "zh_nian", "1", "3", "zh_yue", "5", "zh_ri">>,
      <<"2", "0", "2", "4", "zh_nian", "2", "zh_yue", "3", "0", "zh_ri">>,
      <<"2", "0", "2", "4", "zh_nian", "1", "zh_yue", "5", "zh_ri", " ", "1", "0", ":", "3", "0">>,
      <<"2", "0", "2", "4", "zh_nian", "1", "zh_yue", "5", "zh_ri", " ", "2", "4", ":", "0", "0">>,
      <<"2", "4", "zh_nian", "1", "zh_yue", "5", "zh_ri">>,
      <<"2", "0", "2", "3", "-", "0", "6", "-", "1", "5">>,
      <<"3", "h">>,
      <<"3", " ", "H", "O", "U", "R", "S">>,
      <<"3", " ", "D", "a", "y", "s">>,
      <<"1", " ", "m", "o", "n", "t", "h">>,
      <<"2", " ", "m", "o", "n", "t", "h", "s">>,
      <<"2", " ", "y", "e", "a", "r", "s">>,
      <<"1", " ", "y", "r">>,
      <<"J", "a", "n", "u", "a", "r", "y", " ", "5">>,
      <<"3", " ", "d", "a", "y", "s", " ", "2", " ", "h", "o", "u", "r", "s">>,
      <<"1", " ", "w", "e", "e", "k", " ", "3", " ", "d", "a", "y", "s">>,
      <<"2", " ", "y", "e", "a", "r", "s", " ", "3", " ", "m", "o", "n", "t", "h", "s">>,
      <<"y", "e", "s", "t", "e", "r", "d", "a", "y", " ", "5", " ", "m", "i", "n">>,
      <<>> }

ParseTexts == RelativeTexts \cup OtherTexts

\* 2024-01-10T12:00:00, 2024-03-01T00:30:15 and 2024-01-01T00:00:00
Nows ==
    { DateTime(2024, 1, 10, 12, 0, 0),
      DateTime(2024, 3, 1, 0, 30, 15),
      DateTime(2024, 1, 1, 0, 0, 0) }

\* parser.parse(text) raises, or returns 2023-06-15T00:00:00.
DateutilOutcomes ==
    { [raises |-> TRUE, dt |-> NoDate],
      [raises |-> FALSE, dt |-> DateTime(2023, 6, 15, 0, 0, 0)] }

ParseIdle ==
    /\ now = NoDate
    /\ dateutil = [raises |-> TRUE, dt |-> NoDate]
    /\ parsed = Raises("off")

(***************************************************************************)
(* PostExtractor._extract_image_urls (post_extractor.py).                  *)
(*                                                                         *)
(* The detail view shows one image of the post at a time.  A post has      *)
(* `len` images; its 'next' control is present while a later image exists, *)
(* and at every image when the post `wraps` (the control never disappears  *)
(* and leads from the last image back to the first).  The URL of an image  *)
(* is read from its srcset attribute when it has one, else from src.       *)
(***************************************************************************)

\* max_images of _extract_image_urls.
max_images == 10

CarouselLens == {1, 2, 3, 10, 11}

Carousels == [len : CarouselLens, wraps : BOOLEAN, srcset : BOOLEAN]

\* The URL read from image k of post c: urls[-1].strip().split(' ')[0] of
\* its srcset, or its src.
ImageUrl(c, k) == [img |-> k, attr |-> IF c.srcset THEN "srcset" ELSE "src"]

\* What reading the image showing can give: the element and its URL
\* ("found"), no element under any selector ("absent"), an element with
\* neither srcset nor src ("none").
ReadOutcomes == {"found", "absent", "none"}

\* query_selector over next_button_selectors finds the control.
NextPresent(c, k) == k < c.len \/ c.wraps

\* The image showing after a click on the control.
AfterClick(c, k) == IF k < c.len THEN k + 1 ELSE 1

Elements(urls) == {urls[k] : k \in 1..Len(urls)}

\* `image_urls.append(new_url)` without the membership test.
CollectAlways(urls, read, url) ==
    IF read = "found" THEN Append(urls, url) ELSE urls

\* `if new_url and new_url not in image_urls: image_urls.append(new_url)`.
Collect(urls, read, url) ==
    IF read = "found" /\ url \notin Elements(urls) THEN Append(urls, url) ELSE urls

CarouselIdle ==
    /\ cpc = "off"
    /\ carousel = [len |-> 1, wraps |-> FALSE, srcset |-> FALSE]
    /\ showing = 0
    /\ step = 0
    /\ image_urls = <<>>

(***************************************************************************)
(* PostExtractor._identify_pinned_posts, strategy by strategy.             *)
(*                                                                         *)
(* The function reads the priority list from the configuration (line 245)  *)
(* and tests it by membership only; the list is an input of the call.  A   *)
(* page is described by what it answers:                                   *)
(*   all_post_elements  hrefs of the candidates, in DOM order (line 213)   *)
(*   markers            len(pinned_icon_elements) (lines 229-239)          *)
(*   icon               outcome of the icon_matching script                *)
(*   spatial            href of the candidate nearest to each marker       *)
(*   traversal          outcome of the dom_traversal script                *)
(***************************************************************************)

StrategyNames == {Strategies[k] : k \in 1..Len(Strategies)}

\* `name in strategies`
Configured(list, name) == \E k \in 1..Len(list) : list[k] = name

\* The priority lists: the configured one and the lists left when entries
\* of it are removed.
StrategyLists ==
    { SelectSeq(Strategies, LAMBDA name : name \in S) : S \in SUBSET StrategyNames }

NotRun == [name \in StrategyNames |-> <<>>]

\* What a call did: the list returned, the strategies whose block was
\* entered, in order, and what each of them found.
Chain(result, tried, output) ==
    [state |-> "done", result |-> result, tried |-> tried, output |-> output]

\* The fallback without the `not pinned_posts` guard.
FallbackRuns_Unguarded(list, dom, pinned) ==
    /\ Configured(list, "first_post_fallback")
    /\ Len(dom.all_post_elements) > 0

\* Line 421: the guard of strategy 4, `pinned` being pinned_posts there.
FallbackRuns(list, dom, pinned) ==
    /\ Configured(list, "first_post_fallback")
    /\ pinned = <<>>
    /\ Len(dom.all_post_elements) > 0

\* _identify_pinned_posts with the priority list `list` on the page `dom`.
identify_pinned_chain(list, dom) ==
    IF Configured(list, "icon_matching")
    THEN \* lines 248-317: the branch returns on both of its paths
         LET found == IF dom.icon.raises THEN <<>> ELSE dom.icon.hrefs
         IN  Chain(found, <<"icon_matching">>,
                   [NotRun EXCEPT !["icon_matching"] = found])
    ELSE LET \* lines 320-377
             run2 == Configured(list, "spatial_proximity") /\ dom.markers > 0
             out2 == IF run2
                     THEN Dedup(SelectSeq(dom.spatial, LAMBDA h : Truthy(h)))
                     ELSE <<>>
             \* lines 380-418
             run3 == /\ Configured(list, "dom_traversal")
                     /\ out2 = <<>>
                     /\ dom.markers > 0
             out3 == IF run3 /\ ~dom.traversal.raises
                     THEN Dedup(dom.traversal.hrefs)
                     ELSE <<>>
             p3 == out2 \o out3
             \* lines 421-433
             run4 == FallbackRuns(list, dom, p3)
             out4 == IF run4 /\ Truthy(dom.all_post_elements[1])
                     THEN <<dom.all_post_elements[1]>>
                     ELSE <<>>
             ran == [name \in StrategyNames |->
                        CASE name = "icon_matching" -> FALSE
                          [] name = "spatial_proximity" -> run2
                          [] name = "dom_traversal" -> run3
                          [] OTHER -> run4]
         IN  Chain(p3 \o out4,
                   SelectSeq(list, LAMBDA name : ran[name]),
                   [name \in StrategyNames |->
                        CASE name = "icon_matching" -> <<>>
                          [] name = "spatial_proximity" -> out2
                          [] name = "dom_traversal" -> out3
                          [] OTHER -> out4])

\* ---- pages ----
MaxCandidates == 2
MaxMarkers == 2

CandidateLists == {[k \in 1..n |-> PostHref(k)] : n \in 0..MaxCandidates}

\* Lists of at most n hrefs of `elements`.
HrefLists(elements, n) ==
    UNION {[1..k -> {elements[j] : j \in 1..Len(elements)}] : k \in 0..n}

ScriptOutcomes(elements, n) ==
    {[raises |-> TRUE, hrefs |-> <<>>]}
        \cup {[raises |-> FALSE, hrefs |-> h] : h \in HrefLists(elements, n)}

\* The icon_matching script returns no href twice (line 287).
IconScriptOutcomes(elements, n) ==
    {o \in ScriptOutcomes(elements, n) : Dedup(o.hrefs) = o.hrefs}

PinnedPage(elements, n, ic, sp, tr) ==
    [all_post_elements |-> elements, markers |-> n, icon |-> ic,
     spatial |-> sp, traversal |-> tr]

NoPage ==
    [all_post_elements |-> <<>>, markers |-> 0,
     icon |-> [raises |-> FALSE, hrefs |-> <<>>], spatial |-> <<>>,
     traversal |-> [raises |-> FALSE, hrefs |-> <<>>]]

PinnedIdle ==
    /\ strategies = Strategies
    /\ profile_page = NoPage
    /\ chain = [state |-> "off", result |-> <<>>, tried |-> <<>>, output |-> NotRun]

(***************************************************************************)
(* main and download_posts_for_user (main.py).                             *)
(*                                                                         *)
(* What happens while one profile is handled:                              *)
(*   stage "mkdir"     create_user_date_dir raises                         *)
(*   stage "navigate"  navigation fails: extract_recent_posts returns []   *)
(*   stage "scroll"    scroll_down raises: extract_recent_posts raises     *)
(*   stage "locate"    no candidate: extract_recent_posts returns []       *)
(*   stage "scan"      extract_recent_posts returns `posts` posts; saving  *)
(*                     post number `raises_at` raises (0: none does), and  *)
(*                     `absorbed` tells whether a download_image or        *)
(*                     save_caption call failed and returned None          *)
(***************************************************************************)

MaxUsers == 3
MaxRecent == 2

UserNames == <<"user1", "user2", "user3", "user4">>

UserLists == {SubSeq(UserNames, 1, n) : n \in 1..MaxUsers}

Aborts(stage) == [stage |-> stage, posts |-> 0, raises_at |-> 0, absorbed |-> FALSE]

ProfileEvents ==
    {Aborts(stage) : stage \in {"mkdir", "navigate", "scroll", "locate"}}
        \cup {e \in [stage : {"scan"}, posts : 0..MaxRecent,
                     raises_at : 0..MaxRecent, absorbed : BOOLEAN] :
                  /\ e.raises_at <= e.posts
                  /\ e.absorbed => e.posts > 0}

\* An exception reaches the try of download_posts_for_user.
Escapes(event) ==
    \/ event.stage \in {"mkdir", "scroll"}
    \/ event.stage = "scan" /\ event.raises_at > 0

\* Without the except clause's `return 0`: the posts saved before the
\* exception are counted.
download_posts_for_user_Partial(event) ==
    IF event.stage \in {"mkdir", "scroll", "navigate", "locate"} THEN 0
    ELSE IF event.raises_at > 0 THEN event.raises_at - 1
    ELSE event.posts

\* download_posts_for_user: 0 from the except clause (line 125) and for an
\* empty list (line 68), else downloaded_count, one per post of the list
\* (line 118) whether or not its caption and images were saved.
download_posts_for_user(event) ==
    IF Escapes(event) THEN 0
    ELSE IF event.stage \in {"navigate", "locate"} THEN 0
    ELSE event.posts

RunIdle ==
    /\ mpc = "off"
    /\ USERS_TO_MONITOR = <<>>
    /\ user_idx = 0
    /\ total_downloaded = 0
    /\ handled = <<>>

(***************************************************************************)
(* PostExtractor._get_post_elements, strategy by strategy.                 *)
(***************************************************************************)

\* The XPath strategy, numbered after the selectors.
XPathStrategy == NumSelectors + 1

\* The strategies _get_post_elements queries, in order: the selectors up to
\* the first one with an image-bearing match (lines 507-521), and the XPath
\* expression when there is none (lines 526-533).
QueriedStrategies(page) ==
    LET winners == {s \in 1..NumSelectors : ValidElements(page, s) # <<>>}
    IN  IF winners # {}
        THEN [k \in 1..(CHOOSE s \in winners : \A t \in winners : s <= t) |-> k]
        ELSE [k \in 1..XPathStrategy |-> k]

\* What query_selector_all gives for one selector: an exception, no match,
\* the image-less navigation link alone, post links around it (the second
\* post first in DOM order), or the two post links.
SelectorOutcomes ==
    { [raises |-> TRUE, matches |-> <<>>],
      [raises |-> FALSE, matches |-> <<>>],
      [raises |-> FALSE, matches |-> <<NavLink>>],
      [raises |-> FALSE, matches |-> <<FeedLinks(2)[2], NavLink, FeedLinks(2)[1]>>],
      [raises |-> FALSE, matches |-> FeedLinks(2)] }

\* What the XPath strategy gives: an exception, no post link, one post link.
XPathOutcomes ==
    { [raises |-> TRUE, links |-> <<>>],
      [raises |-> FALSE, links |-> <<>>],
      [raises |-> FALSE, links |-> <<FeedLinks(3)[3]>>] }

NoFeedPage ==
    [selectors |-> [k \in 1..NumSelectors |-> [raises |-> FALSE, matches |-> <<>>]],
     xpath |-> [raises |-> FALSE, links |-> <<>>]]

LocateIdle ==
    /\ feed_page = NoFeedPage
    /\ located = [state |-> "off", result |-> <<>>, queried |-> <<>>]

(***************************************************************************)
(* PostExtractor._extract_post_data (post_extractor.py, lines 579-694).    *)
(*                                                                         *)
(* A query for the time node gives [state, text, text_raises, attr]:       *)
(*   state        "raises" (the query raises), "absent" (no node), "found" *)
(*   text         inner_text() of the node                                 *)
(*   text_raises  inner_text() raises                                      *)
(*   attr         the datetime attribute: "absent" (None or ''), "valid"   *)
(*                (dateutil parses it), "malformed" (dateutil raises)      *)
(***************************************************************************)

\* len(timestamp_selectors) (lines 637-641)
NumTimeSelectors == 3

\* datetime.datetime.now() during the call, and the instant a valid
\* datetime attribute denotes.
ExtractNow == DateTime(2024, 1, 10, 12, 0, 0)
AttrInstant == DateTime(2024, 1, 9, 10, 0, 0)

\* dateutil does not parse the display texts used here.
ExtractDateutil == [raises |-> TRUE, dt |-> NoDate]

NodeTexts ==
    { <<"3", " ", "h", "o", "u", "r", "s">>,
      <<"t", "o", "d", "a", "y", " ", "2", "5", ":", "0", "0">>,
      <<>> }

NoNode(state) == [state |-> state, text |-> <<>>, text_raises |-> FALSE, attr |-> "absent"]

TimeQueryOutcomes ==
    {NoNode("raises"), NoNode("absent")}
        \cup {[state |-> "found", text |-> t, text_raises |-> FALSE, attr |-> a] :
                  t \in NodeTexts, a \in {"absent", "valid", "malformed"}}
        \cup {[state |-> "found", text |-> <<>>, text_raises |-> TRUE, attr |-> "valid"]}

\* What the helpers find: the author anchor and the caption node, or
\* neither (or their queries raise: each helper returns its default).
HelperOutcomes == {"found", "default"}

Username == <<"u", "s", "e", "r">>
AuthorFound == <<"a", "u", "t", "h", "o", "r">>
CaptionFound == <<"h", "i">>
UrlsFound == <<[img |-> 1, attr |-> "src"]>>

\* _extract_author_info(username), _extract_caption(), _extract_image_urls()
extract_author_info(helpers) == IF helpers = "found" THEN AuthorFound ELSE Username
extract_caption(helpers) == IF helpers = "found" THEN CaptionFound ELSE <<>>
extract_image_urls(helpers) == IF helpers = "found" THEN UrlsFound ELSE <<>>

\* return None, by the way `exit`: "wait" (line 594), "no_node" (line 666),
\* "except" (line 694).
NotFound(exit) ==
    [exit |-> exit, found |-> FALSE, timestamp |-> NoDate, source |-> "none",
     timestamp_text |-> NoneText, author |-> <<>>, caption |-> <<>>,
     image_urls |-> <<>>]

\* The dict returned at lines 626-633 ("return1") or 683-690 ("return2");
\* source tells where the timestamp comes from.
PostData(exit, ts, source, text, helpers) ==
    [exit |-> exit, found |-> TRUE, timestamp |-> ts, source |-> source,
     timestamp_text |-> text, author |-> extract_author_info(helpers),
     caption |-> extract_caption(helpers),
     image_urls |-> extract_image_urls(helpers)]

\* Mutant: no handler around the parser; the dict is built without an
\* instant when it raises.
ParseDisplayText_Unhandled(node, text, helpers) ==
    LET shown == IF Truthy(text) THEN text ELSE node.text
        p == parse_instagram_timestamp(shown, ExtractNow, ExtractDateutil)
    IN  PostData("return2", p.dt, "display_text", shown, helpers)

\* Lines 663-690: the node was found and no timestamp is set: the display
\* text (read again when it is empty or was not read) is parsed.
ParseDisplayText(node, text, helpers) ==
    IF ~Truthy(text) /\ node.text_raises THEN NotFound("except")
    ELSE LET shown == IF Truthy(text) THEN text ELSE node.text
             p == parse_instagram_timestamp(shown, ExtractNow, ExtractDateutil)
         IN  IF p.raises # "none" THEN NotFound("except")
             ELSE PostData("return2", p.dt, "display_text", shown, helpers)

\* Lines 643-660 and 663-690 for the node a CSS selector found.
FromCssNode(node, helpers) ==
    IF node.text_raises \/ node.attr = "malformed" THEN NotFound("except")
    ELSE IF node.attr = "valid"
    THEN PostData("return2", AttrInstant, "datetime_attr", node.text, helpers)
    ELSE ParseDisplayText(node, node.text, helpers)

\* Lines 635-660: the CSS selectors from number k on.
RECURSIVE FromCssSelectors(_, _, _)
FromCssSelectors(css, k, helpers) ==
    IF k > NumTimeSelectors THEN NotFound("no_node")
    ELSE IF css[k].state = "raises" THEN NotFound("except")
    ELSE IF css[k].state = "found" THEN FromCssNode(css[k], helpers)
    ELSE FromCssSelectors(css, k + 1, helpers)

\* _extract_post_data on the detail view `view`:
\* [dialog_shown, xpath, css, helpers].
extract_post_data(view) ==
    IF ~view.dialog_shown THEN NotFound("wait")
    ELSE IF view.xpath.state # "found"
    THEN \* the XPath query raised (caught at line 634) or found no node
         FromCssSelectors(view.css, 1, view.helpers)
    ELSE IF view.xpath.text_raises
    THEN \* inner_text raised (caught at line 634): timestamp_text is None
         ParseDisplayText(view.xpath, NoneText, view.helpers)
    ELSE IF view.xpath.attr = "valid"
    THEN PostData("return1", AttrInstant, "datetime_attr", view.xpath.text,
                  view.helpers)
    ELSE \* no attribute, or parser.parse raised (caught at line 634)
         ParseDisplayText(view.xpath, view.xpath.text, view.helpers)

NoView ==
    [dialog_shown |-> FALSE, xpath |-> NoNode("absent"),
     css |-> [k \in 1..NumTimeSelectors |-> NoNode("absent")],
     helpers |-> "default"]

ExtractIdle ==
    /\ detail_view = NoView
    /\ extracted = [state |-> "off", data |-> NotFound("wait")]

(***************************************************************************)
(* PostExtractor._close_post_dialog (post_extractor.py, lines 874-893).    *)
(***************************************************************************)

\* Largest number of calls followed.
MaxCloses == 3

\* The call under way.
ThisCall == releases[Len(releases)]

\* The call under way issues the release attempt `attempt`.
Issue(attempt) ==
    releases' = [releases EXCEPT ![Len(releases)].attempts = Append(@, attempt)]

CloseIdle ==
    /\ close_pc = "off"
    /\ close_calls = 0
    /\ releases = <<>>

(***************************************************************************)
(* Inputs of PostExtractor._is_pinned_post (post_extractor.py, lines       *)
(* 442-490): the ways a post is written on the page.                       *)
(***************************************************************************)

\* Largest number of entries of pinned_posts.
MaxPinned == 2

Origin ==
    <<"h", "t", "t", "p", "s", ":", "/", "/", "w", "w", "w", ".",
      "i", "n", "s", "t", "a", "g", "r", "a", "m", ".", "c", "o", "m">>

\* Posts: the path token and the ID segment.
MatchPosts == [kind : {SlashP, SlashReel}, id : {<<"C", "x", "1">>, <<"D", "y">>}]

\* link.href, getAttribute('href'), and the ID segment alone.
FullUrl(post) == Origin \o post.kind \o post.id \o <<"/">>
RelativePath(post) == post.kind \o post.id \o <<"/">>
BareId(post) == post.id

Representations(post) == {FullUrl(post), RelativePath(post), BareId(post)}

AllRepresentations == UNION {Representations(post) : post \in MatchPosts}

\* Posts whose ID segment is a proper prefix of the ID segment of a post of
\* MatchPosts.
PrefixPosts == [kind : {SlashP, SlashReel}, id : {<<"C", "x">>}]

\* An href written without the closing slash.
OpenPath(post) == post.kind \o post.id

\* The href values of a candidate: every way of writing a post of
\* MatchPosts, the paths of the posts with a prefix ID, and paths without
\* the closing slash.
CandidateHrefs ==
    AllRepresentations
        \cup {RelativePath(post) : post \in PrefixPosts}
        \cup {OpenPath(post) : post \in MatchPosts \cup PrefixPosts}

\* pinned_posts of every length up to MaxPinned.
PinnedLists == UNION {[1..n -> AllRepresentations] : n \in 0..MaxPinned}

MatchIdle ==
    /\ candidate_href = <<>>
    /\ pinned_list = <<>>
    /\ href_read = FALSE
    /\ is_pinned = "off"

(***************************************************************************)
(* The URL of one image node in PostExtractor._extract_image_urls          *)
(* (post_extractor.py, lines 780-798 and 850-865).                         *)
(***************************************************************************)

\* Largest number of candidates of a srcset attribute.
MaxSrcset == 2

\* text.split(c)[-1]
AfterLast(text, c) ==
    LET at == {k \in 1..Len(text) : text[k] = c}
    IN  IF at = {} THEN text
        ELSE SubSeq(text, (CHOOSE k \in at : \A j \in at : j <= k) + 1, Len(text))

\* text.strip(), for the blank as the only whitespace
Strip(text) ==
    LET ink == {k \in 1..Len(text) : text[k] # " "}
    IN  IF ink = {} THEN <<>>
        ELSE SubSeq(text, CHOOSE k \in ink : \A j \in ink : k <= j,
                          CHOOSE k \in ink : \A j \in ink : j <= k)

\* text.split(c)[0]
BeforeFirst(text, c) ==
    LET at == {k \in 1..Len(text) : text[k] = c}
    IN  IF at = {} THEN text
        ELSE SubSeq(text, 1, (CHOOSE k \in at : \A j \in at : k <= j) - 1)

\* srcset.split(',')[-1].strip().split(' ')[0]
SrcsetUrl(srcset) == BeforeFirst(Strip(AfterLast(srcset, ",")), " ")

\* Mutant: the first candidate of the srcset is taken.
ChooseUrl_FirstCandidate(srcset, src) ==
    IF Truthy(srcset) /\ BeforeFirst(Strip(BeforeFirst(srcset, ",")), " ") # <<>>
    THEN BeforeFirst(Strip(BeforeFirst(srcset, ",")), " ")
    ELSE IF Truthy(src) THEN src
    ELSE NoneText

\* Lines 782-797 and 851-860: the URL from srcset when the attribute is
\* there and gives one, else src, else none (NoneText).
ChooseUrl(srcset, src) ==
    IF Truthy(srcset) /\ SrcsetUrl(srcset) # <<>> THEN SrcsetUrl(srcset)
    ELSE IF Truthy(src) THEN src
    ELSE NoneText

\* Lines 790, 797 (image_urls is empty there) and 863-864.
AppendUrl(urls, url) ==
    IF url # NoneText /\ url \notin Elements(urls) THEN Append(urls, url) ELSE urls

\* Candidate k of a srcset: its URL and its descriptor.
SrcsetCandidate(k, described) ==
    [url |-> <<"u", "r", "l">> \o <<ToString(k)>>,
     descriptor |-> IF described THEN <<ToString(k)>> \o <<"x">> ELSE <<>>]

\* A candidate as written in the attribute.
WrittenCandidate(c) ==
    IF c.descriptor = <<>> THEN c.url ELSE c.url \o <<" ">> \o c.descriptor

\* ','.join-like writing of the candidates with the separator sep.
RECURSIVE JoinCandidates(_, _)
JoinCandidates(candidates, sep) ==
    IF candidates = <<>> THEN <<>>
    ELSE IF Len(candidates) = 1 THEN WrittenCandidate(candidates[1])
    ELSE WrittenCandidate(candidates[1]) \o sep
            \o JoinCandidates(SubSeq(candidates, 2, Len(candidates)), sep)

\* The candidates as the attribute value, written in one of the styles:
\* "tight" (a 1x,b 2x), "spaced" (a 1x, b 2x), "padded" ( a 1x ,  b 2x ),
\* "trailing" (a 1x, b 2x, ).
WrittenSrcset(candidates, style) ==
    CASE style = "tight" -> JoinCandidates(candidates, <<",">>)
      [] style = "spaced" -> JoinCandidates(candidates, <<",", " ">>)
      [] style = "padded" ->
            <<" ">> \o JoinCandidates(candidates, <<" ", ",", " ", " ">>) \o <<" ">>
      [] OTHER -> JoinCandidates(candidates, <<",", " ">>) \o <<",", " ">>

SrcsetStyles == {"tight", "spaced", "padded", "trailing"}

\* The img elements: srcset absent (NoneText), empty, or written from 1 to
\* MaxSrcset candidates; src absent, empty or a URL.
ImageNode(n, described, style, has_srcset, src) ==
    LET candidates == [k \in 1..n |-> SrcsetCandidate(k, described)]
    IN  [candidates |-> IF has_srcset THEN candidates ELSE <<>>,
         style |-> style,
         srcset |-> IF has_srcset THEN WrittenSrcset(candidates, style) ELSE NoneText,
         src |-> src]

SrcValues == {NoneText, <<>>, <<"s", "r", "c">>}

NoImageNode == ImageNode(0, FALSE, "tight", FALSE, NoneText)

ChoiceIdle ==
    /\ image_node = NoImageNode
    /\ call_site = "off"
    /\ collected = [before |-> <<>>, after |-> <<>>]
    /\ url_taken = <<"o", "f", "f">>

\* The components other than the classifier and the scan, not in use.
RestIdle == ParseIdle /\ CarouselIdle /\ PinnedIdle /\ RunIdle /\ LocateIdle /\ ExtractIdle /\ CloseIdle /\ MatchIdle /\ ChoiceIdle

(***************************************************************************)
(* Inputs of one scan.                                                     *)
(***************************************************************************)

\* POST_EXTRACTION_STRATEGY["max_posts_to_process"]
MaxPostsToProcess == 5

\* config.HOURS_THRESHOLD as shipped, and a run configured for two days.
ScanThresholds == {24, 48}

\* Pinned entries lie among the first PinnedTop entries of the feed.
PinnedTop == 1

Min(a, b) == IF a <= b THEN a ELSE b

\* The subsequence of list at the positions in S.
Pick(list, S) == SelectSeq(list, LAMBDA h : \E k \in S : list[k] = h)

IconOutcomes(elements) ==
    {[raises |-> TRUE, hrefs |-> <<>>]}
        \cup {[raises |-> FALSE, hrefs |-> Pick(elements, S)] :
                  S \in SUBSET (1..Min(PinnedTop, Len(elements)))}

PinnedDom(icon, elements) ==
    [icon |-> icon, markers |-> Len(icon.hrefs), spatial |-> <<>>,
     traversal |-> [raises |-> FALSE, hrefs |-> <<>>],
     all_post_elements |-> elements]

\* What the detail view of a candidate shows: a display text and the
\* instant _extract_post_data resolves for it.
Fresh == [age |-> 1, aware |-> FALSE]
Stale == [age |-> 100, aware |-> FALSE]
Aware == [age |-> 1, aware |-> TRUE]

\* "3h": the short form, in no vocabulary.
ShortText == <<"3", "h">>

\* "3 hours" (shown on a post whose datetime attribute is older), "today",
\* "2 days", "yesterday", and "3h" on a fresh, a stale and a
\* timezone-aware instant.
ScanViews ==
    { [timestamp_text |-> <<"3", " ", "h", "o", "u", "r", "s">>, timestamp |-> Stale],
      [timestamp_text |-> <<"t", "o", "d", "a", "y">>, timestamp |-> Fresh],
      [timestamp_text |-> <<"2", " ", "d", "a", "y", "s">>, timestamp |-> Stale],
      [timestamp_text |-> <<"y", "e", "s", "t", "e", "r", "d", "a", "y">>, timestamp |-> Stale] }
        \cup [timestamp_text : {ShortText}, timestamp : {Fresh, Stale, Aware}]

NoData == [timestamp_text |-> NoneText, timestamp |-> [age |-> 0, aware |-> FALSE]]

\* Outcomes of page.goto(url).
NavOutcomes == {"loaded", "timeout", "error"}

(***************************************************************************)
(* One call of is_within_hours on inputs drawn from the sets above.        *)
(***************************************************************************)

RecencyIdle ==
    /\ timestamp = [age |-> 0, aware |-> FALSE]
    /\ hours_threshold = 0
    /\ timestamp_text = NoneText
    /\ verdict = "off"

\* The scan at position p, nothing done yet.
ScanAt(p) ==
    /\ pc = p
    /\ post_elements = <<>>
    /\ pinned_posts = <<>>
    /\ i = 0
    /\ processed_count = 0
    /\ recent_posts = <<>>
    /\ post_data = NoData
    /\ dialogOpen = FALSE
    /\ clicked = <<>>
    /\ closePending = FALSE
    /\ oldSeenAt = 0
    /\ staleSeen = FALSE
    /\ misread = {}
    /\ navigated = "pending"
    /\ noImageMatch = FALSE
    /\ scrollCalls = 0
    /\ locateCalls = 0
    /\ pinnedCalls = 0

InitRecency ==
    /\ timestamp \in Timestamps
    /\ hours_threshold \in Thresholds
    /\ timestamp_text \in Texts
    /\ verdict = "pending"
    /\ ScanAt("off")
    /\ HOURS_THRESHOLD = 24
    /\ RestIdle

CallIsWithinHours ==
    /\ verdict = "pending"
    /\ verdict' = is_within_hours(timestamp, hours_threshold, timestamp_text)
    /\ UNCHANGED <<timestamp, hours_threshold, timestamp_text>>
    /\ UNCHANGED <<scanVars, restVars>>

NextRecency == CallIsWithinHours

SpecRecency == InitRecency /\ [][NextRecency]_vars

(***************************************************************************)
(* extract_recent_posts (post_extractor.py, lines 83-199).                 *)
(*                                                                         *)
(* pc: "navigate" -> "scroll" -> "locate" -> "pinned" -> "loop" ->         *)
(* "extract" -> "classify" -> "loop" ..., and "returned" (a list was       *)
(* returned) or "raised" (an exception left the method).  The branch       *)
(* `isinstance(post_element, str)` is not modelled: _get_post_elements     *)
(* returns element handles only.  _close_post_dialog is taken to close     *)
(* the detail view.                                                        *)
(***************************************************************************)

InitScan ==
    /\ RecencyIdle
    /\ ScanAt("navigate")
    /\ HOURS_THRESHOLD \in ScanThresholds
    /\ RestIdle

\* Mutant: only the timeout is caught.
navigate_TimeoutOnly(outcome) ==
    IF outcome = "loaded" THEN "True"
    ELSE IF outcome = "timeout" THEN "False" ELSE "raise"

\* BrowserHandler.navigate: True when page.goto returns, False on
\* PlaywrightTimeoutError and on every other Exception.
navigate(outcome) ==
    IF outcome = "loaded" THEN "True" ELSE "False"

\* if not self.browser.navigate(profile_url): return []
Navigate ==
    /\ pc = "navigate"
    /\ \E outcome \in NavOutcomes :
        /\ navigated' = outcome
        /\ pc' = IF navigate(outcome) = "True" THEN "scroll"
                 ELSE IF navigate(outcome) = "False" THEN "returned"
                 ELSE "raised"
    /\ UNCHANGED <<HOURS_THRESHOLD, post_elements, pinned_posts, noImageMatch,
                   scrollCalls, locateCalls, pinnedCalls, loopVars, recencyVars, restVars>>

\* self.browser.scroll_down(self.config.SCROLL_COUNT): page.evaluate may
\* raise, and nothing in extract_recent_posts catches it.
ScrollDown ==
    /\ pc = "scroll"
    /\ scrollCalls' = scrollCalls + 1
    /\ \E ok \in BOOLEAN : pc' = IF ok THEN "locate" ELSE "raised"
    /\ UNCHANGED <<HOURS_THRESHOLD, post_elements, pinned_posts, navigated,
                   noImageMatch, locateCalls, pinnedCalls, loopVars, recencyVars, restVars>>

\* post_elements = self._get_post_elements(); if not post_elements: return []
Locate ==
    /\ pc = "locate"
    /\ \E page \in ScanPages :
        /\ post_elements' = GetPostElements(page)
        /\ noImageMatch' = NoStrategyYields(page)
        /\ pc' = IF GetPostElements(page) = <<>> THEN "returned" ELSE "pinned"
    /\ locateCalls' = locateCalls + 1
    /\ UNCHANGED <<HOURS_THRESHOLD, pinned_posts, navigated, scrollCalls,
                   pinnedCalls, loopVars, recencyVars, restVars>>

\* pinned_posts = self._identify_pinned_posts(); processed_count = 0
\* (_identify_pinned_posts calls _get_post_elements once more, line 213)
IdentifyPinned ==
    /\ pc = "pinned"
    /\ \E icon \in IconOutcomes(post_elements) :
        pinned_posts' = identify_pinned_posts(PinnedDom(icon, post_elements))
    /\ pinnedCalls' = pinnedCalls + 1
    /\ locateCalls' = locateCalls + 1
    /\ i' = 1
    /\ processed_count' = 0
    /\ pc' = "loop"
    /\ UNCHANGED <<HOURS_THRESHOLD, post_elements, navigated, noImageMatch,
                   scrollCalls, recent_posts, post_data, dialogOpen, clicked,
                   closePending, oldSeenAt, staleSeen, misread, recencyVars, restVars>>

\* Mutant: off by one.
CapHitLate(count) == count > MaxPostsToProcess

\* if processed_count >= max_posts_to_process: break
CapHit(count) == count >= MaxPostsToProcess

\* The for loop has no element left: return recent_posts.
LoopExhausted ==
    /\ pc = "loop"
    /\ i > Len(post_elements)
    /\ pc' = "returned"
    /\ UNCHANGED <<setupVars, loopVars, recencyVars, restVars>>

\* The cap check at the head of the loop body: break, return recent_posts.
CapReached ==
    /\ pc = "loop"
    /\ i <= Len(post_elements)
    /\ CapHit(processed_count)
    /\ pc' = "returned"
    /\ UNCHANGED <<setupVars, loopVars, recencyVars, restVars>>

\* if self._is_pinned_post(post_element, pinned_posts): continue
SkipPinned ==
    /\ pc = "loop"
    /\ i <= Len(post_elements)
    /\ ~CapHit(processed_count)
    /\ \E readOk \in BOOLEAN : is_pinned_post(post_elements[i], pinned_posts, readOk)
    /\ i' = i + 1
    /\ UNCHANGED <<pc, setupVars, processed_count, recent_posts, post_data,
                   dialogOpen, clicked, closePending, oldSeenAt, staleSeen,
                   misread, recencyVars, restVars>>

\* The loop head lets candidate i through, and click() is called on it.
NotSkipped(readOk) ==
    /\ pc = "loop"
    /\ i <= Len(post_elements)
    /\ ~CapHit(processed_count)
    /\ ~is_pinned_post(post_elements[i], pinned_posts, readOk)
    /\ clicked' = Append(clicked, i)
    /\ misread' = IF ~readOk /\ HrefMatchesPinned(post_elements[i], pinned_posts)
                  THEN misread \cup {i} ELSE misread

\* post_element.click() returns: _extract_post_data is called next.
ClickOpens ==
    /\ \E readOk \in BOOLEAN : NotSkipped(readOk)
    /\ closePending' = TRUE
    /\ pc' = "extract"
    /\ UNCHANGED <<setupVars, i, processed_count, recent_posts, post_data,
                   dialogOpen, oldSeenAt, staleSeen, recencyVars, restVars>>

\* Mutant: the except clause starts over with an empty pinned set.
ClickRaises_ForgetsPinned ==
    /\ \E readOk \in BOOLEAN : NotSkipped(readOk)
    /\ closePending' = FALSE
    /\ dialogOpen' = FALSE
    /\ i' = i + 1
    /\ pinned_posts' = <<>>
    /\ UNCHANGED <<pc, HOURS_THRESHOLD, post_elements, navigated, noImageMatch,
                   scrollCalls, locateCalls, pinnedCalls, processed_count,
                   recent_posts, post_data, oldSeenAt, staleSeen, recencyVars,
                   restVars>>

\* post_element.click() raises: the except clause closes and continues.
ClickRaises ==
    /\ \E readOk \in BOOLEAN : NotSkipped(readOk)
    /\ closePending' = FALSE
    /\ dialogOpen' = FALSE
    /\ i' = i + 1
    /\ UNCHANGED <<pc, setupVars, processed_count, recent_posts, post_data,
                   oldSeenAt, staleSeen, recencyVars, restVars>>

\* Mutant: after a None the same candidate is tried again.
ExtractNotFound_Retries ==
    /\ pc = "extract"
    /\ \E shown \in BOOLEAN :
        /\ shown \/ ~dialogOpen
        /\ dialogOpen' = shown
    /\ pc' = "loop"
    /\ UNCHANGED <<setupVars, i, processed_count, recent_posts, post_data,
                   clicked, closePending, oldSeenAt, staleSeen, misread,
                   recencyVars, restVars>>

\* post_data = self._extract_post_data(username); if not post_data: continue
\* _extract_post_data returns None when the dialog marker does not show
\* (shown = FALSE) and when, in the open dialog, no time node is found or an
\* exception is caught (shown = TRUE).  No _close_post_dialog on this path,
\* and processed_count is not touched.
ExtractNotFound ==
    /\ pc = "extract"
    /\ \E shown \in BOOLEAN :
        /\ shown \/ ~dialogOpen
        /\ dialogOpen' = shown
    /\ i' = i + 1
    /\ pc' = "loop"
    /\ UNCHANGED <<setupVars, processed_count, recent_posts, post_data,
                   clicked, closePending, oldSeenAt, staleSeen, misread,
                   recencyVars, restVars>>

\* post_data = self._extract_post_data(username) is a dict;
\* processed_count += 1
ExtractData ==
    /\ pc = "extract"
    /\ \E view \in ScanViews :
        /\ post_data' = view
        /\ oldSeenAt' = IF oldSeenAt = 0
                             /\ AnyIn(OldIndicators, Lower(view.timestamp_text))
                         THEN i ELSE oldSeenAt
    /\ dialogOpen' = TRUE
    /\ processed_count' = processed_count + 1
    /\ pc' = "classify"
    /\ UNCHANGED <<setupVars, i, recent_posts, clicked, closePending,
                   staleSeen, misread, recencyVars, restVars>>

\* Mutant: the early-stop test is dropped.
TextIsOldNever(text) == FALSE

\* any(indicator in timestamp_text.lower() for indicator in old_indicators)
TextIsOld(text) == AnyIn(OldIndicators, Lower(text))

\* Mutant: the special case of lines 163-164 is missing.
KeepsYesterday_Never(data) == FALSE

\* Lines 163-164: the 'yesterday' post is kept before the scan stops.
KeepsYesterday(data) ==
    /\ NamesYesterday(data.timestamp_text)
    /\ HOURS_THRESHOLD >= YesterdayThreshold
    /\ is_within_hours(data.timestamp, HOURS_THRESHOLD, data.timestamp_text) = "True"

\* self._close_post_dialog() at the end of an iteration.
CloseDialog ==
    /\ dialogOpen' = FALSE
    /\ closePending' = FALSE
    /\ post_data' = NoData

\* Lines 161-174: the display text has an 'old' token: the post is kept if
\* KeepsYesterday, the dialog is closed and the loop is left (break, return).
ClassifyOldStop ==
    /\ pc = "classify"
    /\ TextIsOld(post_data.timestamp_text)
    /\ recent_posts' = IF KeepsYesterday(post_data)
                       THEN Append(recent_posts, i) ELSE recent_posts
    /\ staleSeen' = (staleSeen \/ ~KeepsYesterday(post_data))
    /\ CloseDialog
    /\ pc' = "returned"
    /\ UNCHANGED <<setupVars, i, processed_count, clicked, oldSeenAt, misread,
                   recencyVars, restVars>>

\* Mutant: a post within the window is put at the head of the list.
ClassifyWithin_Prepends ==
    /\ pc = "classify"
    /\ ~TextIsOld(post_data.timestamp_text)
    /\ LET within == is_within_hours(post_data.timestamp, HOURS_THRESHOLD,
                                     post_data.timestamp_text)
       IN  /\ within \in {"True", "False"}
           /\ recent_posts' = IF within = "True"
                              THEN <<i>> \o recent_posts ELSE recent_posts
           /\ staleSeen' = (staleSeen \/ within = "False")
    /\ CloseDialog
    /\ i' = i + 1
    /\ pc' = "loop"
    /\ UNCHANGED <<setupVars, processed_count, clicked, oldSeenAt, misread,
                   recencyVars, restVars>>

\* Lines 177-190: no 'old' token and is_within_hours returns: append or
\* skip (log), close the dialog, next candidate.
ClassifyWithin ==
    /\ pc = "classify"
    /\ ~TextIsOld(post_data.timestamp_text)
    /\ LET within == is_within_hours(post_data.timestamp, HOURS_THRESHOLD,
                                     post_data.timestamp_text)
       IN  /\ within \in {"True", "False"}
           /\ recent_posts' = IF within = "True"
                              THEN Append(recent_posts, i) ELSE recent_posts
           /\ staleSeen' = (staleSeen \/ within = "False")
    /\ CloseDialog
    /\ i' = i + 1
    /\ pc' = "loop"
    /\ UNCHANGED <<setupVars, processed_count, clicked, oldSeenAt, misread,
                   recencyVars, restVars>>

\* Mutant: no except clause, the exception leaves extract_recent_posts.
ClassifyRaises_Propagates ==
    /\ pc = "classify"
    /\ ~TextIsOld(post_data.timestamp_text)
    /\ is_within_hours(post_data.timestamp, HOURS_THRESHOLD,
                       post_data.timestamp_text) = "TypeError"
    /\ pc' = "raised"
    /\ UNCHANGED <<setupVars, loopVars, recencyVars, restVars>>

\* Lines 177 and 192-196: is_within_hours raises; the except clause closes
\* the dialog and continues with the next candidate.
ClassifyRaises ==
    /\ pc = "classify"
    /\ ~TextIsOld(post_data.timestamp_text)
    /\ is_within_hours(post_data.timestamp, HOURS_THRESHOLD,
                       post_data.timestamp_text) = "TypeError"
    /\ CloseDialog
    /\ i' = i + 1
    /\ pc' = "loop"
    /\ UNCHANGED <<setupVars, processed_count, recent_posts, clicked,
                   oldSeenAt, staleSeen, misread, recencyVars, restVars>>

Next ==
    \/ Navigate
    \/ ScrollDown
    \/ Locate
    \/ IdentifyPinned
    \/ LoopExhausted
    \/ CapReached
    \/ SkipPinned
    \/ ClickOpens
    \/ ClickRaises
    \/ ExtractNotFound
    \/ ExtractData
    \/ ClassifyOldStop
    \/ ClassifyWithin
    \/ ClassifyRaises

Spec == InitScan /\ [][Next]_vars

\* The scan as it is run: the interpreter executes the next statement as
\* long as there is one, and every browser call returns or raises.
SpecLive == Spec /\ WF_vars(Next)
(***************************************************************************)
(* One call of parse_instagram_timestamp on inputs drawn from the sets     *)
(* above.                                                                  *)
(***************************************************************************)

InitParse ==
    /\ timestamp_text \in ParseTexts
    /\ now \in Nows
    /\ dateutil \in DateutilOutcomes
    /\ parsed = Raises("pending")
    /\ timestamp = [age |-> 0, aware |-> FALSE]
    /\ hours_threshold = 0
    /\ verdict = "off"
    /\ ScanAt("off")
    /\ HOURS_THRESHOLD = 24
    /\ ChoiceIdle
    /\ MatchIdle
    /\ CloseIdle
    /\ ExtractIdle
    /\ LocateIdle
    /\ CarouselIdle
    /\ PinnedIdle
    /\ RunIdle

CallParse ==
    /\ parsed = Raises("pending")
    /\ parsed' = parse_instagram_timestamp(timestamp_text, now, dateutil)
    /\ UNCHANGED <<now, dateutil, recencyVars, scanVars, carouselVars, pinnedVars, runVars, locateVars, extractVars, closeVars, matchVars, choiceVars>>

NextParse == CallParse

SpecParse == InitParse /\ [][NextParse]_vars


(***************************************************************************)
(* Specification of one call of _extract_image_urls.                       *)
(***************************************************************************)
InitCarousel ==
    /\ cpc = "first"
    /\ carousel \in Carousels
    /\ showing = 1
    /\ step = 0
    /\ image_urls = <<>>
    /\ RecencyIdle
    /\ ScanAt("off")
    /\ HOURS_THRESHOLD = 24
    /\ ChoiceIdle
    /\ MatchIdle
    /\ CloseIdle
    /\ ExtractIdle
    /\ LocateIdle
    /\ ParseIdle
    /\ PinnedIdle
    /\ RunIdle

\* Lines 758-818: read the image showing first, then look for the 'next'
\* control; without one the list is returned as it is.
ExtractFirst ==
    /\ cpc = "first"
    /\ \E read \in ReadOutcomes :
          image_urls' = IF read = "found"
                          THEN <<ImageUrl(carousel, showing)>>
                          ELSE <<>>
    /\ cpc' = IF NextPresent(carousel, showing) THEN "loop" ELSE "done"
    /\ UNCHANGED <<carousel, showing, step, recencyVars, scanVars, parseVars, pinnedVars, runVars, locateVars, extractVars, closeVars, matchVars, choiceVars>>

\* Lines 775-810, 870-872: a query or an attribute read before the loop
\* raises, either before the first URL is appended or, on the query for
\* the control, after it; the except clause returns the list.
ExtractFirstRaises ==
    /\ cpc = "first"
    /\ \E read \in ReadOutcomes \cup {"raises"} :
          image_urls' = IF read = "found"
                          THEN <<ImageUrl(carousel, showing)>>
                          ELSE <<>>
    /\ cpc' = "caught"
    /\ UNCHANGED <<carousel, showing, step, recencyVars, scanVars, parseVars, pinnedVars, runVars, locateVars, extractVars, closeVars, matchVars, choiceVars>>

\* Mutant: `while True` in place of range(max_images - 1).
CarouselStep_Unbounded ==
    /\ cpc = "loop"
    /\ NextPresent(carousel, showing)
    /\ showing' = AfterClick(carousel, showing)
    /\ \E read \in ReadOutcomes :
          image_urls' = Collect(image_urls, read, ImageUrl(carousel, showing'))
    /\ step' = step + 1
    /\ UNCHANGED <<cpc, carousel, recencyVars, scanVars, parseVars, pinnedVars, runVars, locateVars, extractVars, closeVars, matchVars, choiceVars>>

\* Mutant: an iteration that reads no URL leaves the loop.
CarouselStep_BreaksOnUnread ==
    /\ cpc = "loop"
    /\ step < max_images - 1
    /\ NextPresent(carousel, showing)
    /\ showing' = AfterClick(carousel, showing)
    /\ \E read \in ReadOutcomes :
          /\ image_urls' = Collect(image_urls, read, ImageUrl(carousel, showing'))
          /\ cpc' = IF read = "found" THEN "loop" ELSE "done"
    /\ step' = step + 1
    /\ UNCHANGED <<carousel, recencyVars, scanVars, parseVars, pinnedVars, runVars, locateVars, extractVars, closeVars, matchVars, choiceVars>>

\* Lines 822-865: one iteration that finds the control, clicks it and
\* reads the image then showing; without an image element (line 848,
\* continue) or without a URL the iteration collects nothing.
CarouselStep ==
    /\ cpc = "loop"
    /\ step < max_images - 1
    /\ NextPresent(carousel, showing)
    /\ showing' = AfterClick(carousel, showing)
    /\ \E read \in ReadOutcomes :
          image_urls' = Collect(image_urls, read, ImageUrl(carousel, showing'))
    /\ step' = step + 1
    /\ UNCHANGED <<cpc, carousel, recencyVars, scanVars, parseVars, pinnedVars, runVars, locateVars, extractVars, closeVars, matchVars, choiceVars>>

\* Mutant: the loop is left whether or not the control is found.
CarouselNoNext_Always ==
    /\ cpc = "loop"
    /\ step < max_images - 1
    /\ cpc' = "done"
    /\ UNCHANGED <<carousel, showing, step, image_urls, recencyVars, scanVars, parseVars, pinnedVars, runVars, locateVars, extractVars, closeVars, matchVars, choiceVars>>

\* Lines 829-831: the control is gone, the loop breaks.
CarouselNoNext ==
    /\ cpc = "loop"
    /\ step < max_images - 1
    /\ ~NextPresent(carousel, showing)
    /\ cpc' = "done"
    /\ UNCHANGED <<carousel, showing, step, image_urls, recencyVars, scanVars, parseVars, pinnedVars, runVars, locateVars, extractVars, closeVars, matchVars, choiceVars>>

\* Line 822: range(max_images - 1) is exhausted.
CarouselExhausted ==
    /\ cpc = "loop"
    /\ step = max_images - 1
    /\ cpc' = "done"
    /\ UNCHANGED <<carousel, showing, step, image_urls, recencyVars, scanVars, parseVars, pinnedVars, runVars, locateVars, extractVars, closeVars, matchVars, choiceVars>>

\* Lines 825, 870-872: the query for the control raises; the except clause
\* returns the URLs collected so far.
CarouselFindRaises ==
    /\ cpc = "loop"
    /\ step < max_images - 1
    /\ cpc' = "caught"
    /\ UNCHANGED <<carousel, showing, step, image_urls, recencyVars, scanVars, parseVars, pinnedVars, runVars, locateVars, extractVars, closeVars, matchVars, choiceVars>>

\* Lines 834, 870-872: click() raises; the URLs collected so far are
\* returned.
CarouselClickRaises ==
    /\ cpc = "loop"
    /\ step < max_images - 1
    /\ NextPresent(carousel, showing)
    /\ cpc' = "caught"
    /\ step' = step + 1
    /\ UNCHANGED <<carousel, showing, image_urls, recencyVars, scanVars, parseVars, pinnedVars, runVars, locateVars, extractVars, closeVars, matchVars, choiceVars>>

\* Lines 842-860, 870-872: after the click, the query for the image or
\* get_attribute raises; the URLs collected so far are returned.
CarouselReadRaises ==
    /\ cpc = "loop"
    /\ step < max_images - 1
    /\ NextPresent(carousel, showing)
    /\ showing' = AfterClick(carousel, showing)
    /\ cpc' = "caught"
    /\ step' = step + 1
    /\ UNCHANGED <<carousel, image_urls, recencyVars, scanVars, parseVars, pinnedVars, runVars, locateVars, extractVars, closeVars, matchVars, choiceVars>>

NextCarousel ==
    \/ ExtractFirst
    \/ ExtractFirstRaises
    \/ CarouselStep
    \/ CarouselNoNext
    \/ CarouselExhausted
    \/ CarouselFindRaises
    \/ CarouselClickRaises
    \/ CarouselReadRaises

SpecCarousel == InitCarousel /\ [][NextCarousel]_vars

\* The traversal as it is run: the next statement is executed as long as
\* there is one, and every browser call returns or raises.
SpecCarouselLive == SpecCarousel /\ WF_vars(NextCarousel)

(***************************************************************************)
(* Specification of one call of _identify_pinned_posts.                    *)
(***************************************************************************)
InitPinned ==
    /\ strategies \in StrategyLists
    /\ \E elements \in CandidateLists, n \in 0..MaxMarkers :
          \* a marker is matched to a candidate only where a marker node exists
          \E ic \in IconScriptOutcomes(elements, n),
             sp \in HrefLists(elements, n),
             tr \in ScriptOutcomes(elements, n) :
                profile_page = PinnedPage(elements, n, ic, sp, tr)
    /\ chain = [state |-> "pending", result |-> <<>>, tried |-> <<>>, output |-> NotRun]
    /\ RecencyIdle
    /\ ScanAt("off")
    /\ HOURS_THRESHOLD = 24
    /\ ChoiceIdle
    /\ MatchIdle
    /\ CloseIdle
    /\ ExtractIdle
    /\ LocateIdle
    /\ ParseIdle
    /\ CarouselIdle
    /\ RunIdle

CallIdentifyPinned ==
    /\ chain.state = "pending"
    /\ chain' = identify_pinned_chain(strategies, profile_page)
    /\ UNCHANGED <<strategies, profile_page, recencyVars, scanVars, parseVars, carouselVars, runVars, locateVars, extractVars, closeVars, matchVars, choiceVars>>

NextPinned == CallIdentifyPinned

SpecPinned == InitPinned /\ [][NextPinned]_vars

(***************************************************************************)
(* Specification of one run of main over USERS_TO_MONITOR.                 *)
(***************************************************************************)
InitRun ==
    /\ mpc = "loop"
    /\ USERS_TO_MONITOR \in UserLists
    /\ user_idx = 1
    /\ total_downloaded = 0
    /\ handled = <<>>
    /\ RecencyIdle
    /\ ScanAt("off")
    /\ HOURS_THRESHOLD = 24
    /\ ChoiceIdle
    /\ MatchIdle
    /\ CloseIdle
    /\ ExtractIdle
    /\ LocateIdle
    /\ ParseIdle
    /\ CarouselIdle
    /\ PinnedIdle

\* Lines 151-169: one iteration of the for loop.
HandleUser ==
    /\ mpc = "loop"
    /\ user_idx <= Len(USERS_TO_MONITOR)
    /\ \E event \in ProfileEvents :
        LET posts_count == download_posts_for_user(event)
        IN  /\ handled' = Append(handled,
                    [username |-> USERS_TO_MONITOR[user_idx], event |-> event,
                     posts_count |-> posts_count])
            /\ total_downloaded' = total_downloaded + posts_count
    /\ user_idx' = user_idx + 1
    /\ UNCHANGED <<mpc, USERS_TO_MONITOR, recencyVars, scanVars, parseVars,
                   carouselVars, pinnedVars, locateVars, extractVars, closeVars, matchVars, choiceVars>>

\* Lines 151, 176-183: the list is exhausted, the summary is logged.
RunEnds ==
    /\ mpc = "loop"
    /\ user_idx > Len(USERS_TO_MONITOR)
    /\ mpc' = "done"
    /\ UNCHANGED <<USERS_TO_MONITOR, user_idx, total_downloaded, handled,
                   recencyVars, scanVars, parseVars, carouselVars, pinnedVars, locateVars, extractVars, closeVars, matchVars, choiceVars>>

NextRun == HandleUser \/ RunEnds

SpecRun == InitRun /\ [][NextRun]_vars

(***************************************************************************)
(* Specification of one call of _get_post_elements.                        *)
(***************************************************************************)
InitLocate ==
    /\ \E sel \in [1..NumSelectors -> SelectorOutcomes], xp \in XPathOutcomes :
          feed_page = [selectors |-> sel, xpath |-> xp]
    /\ located = [state |-> "pending", result |-> <<>>, queried |-> <<>>]
    /\ RecencyIdle
    /\ ScanAt("off")
    /\ HOURS_THRESHOLD = 24
    /\ ChoiceIdle
    /\ MatchIdle
    /\ CloseIdle
    /\ ExtractIdle
    /\ ParseIdle
    /\ CarouselIdle
    /\ PinnedIdle
    /\ RunIdle

CallGetPostElements ==
    /\ located.state = "pending"
    /\ located' = [state |-> "done", result |-> GetPostElements(feed_page),
                   queried |-> QueriedStrategies(feed_page)]
    /\ UNCHANGED <<feed_page, recencyVars, scanVars, parseVars, carouselVars,
                   pinnedVars, runVars, extractVars, closeVars, matchVars, choiceVars>>

NextLocate == CallGetPostElements

SpecLocate == InitLocate /\ [][NextLocate]_vars

(***************************************************************************)
(* Specification of one call of _extract_post_data.                        *)
(***************************************************************************)
InitExtract ==
    /\ \E shown \in BOOLEAN, xp \in TimeQueryOutcomes,
          css \in [1..NumTimeSelectors -> TimeQueryOutcomes],
          helpers \in HelperOutcomes :
            detail_view = [dialog_shown |-> shown, xpath |-> xp, css |-> css,
                           helpers |-> helpers]
    /\ extracted = [state |-> "pending", data |-> NotFound("wait")]
    /\ RecencyIdle
    /\ ScanAt("off")
    /\ HOURS_THRESHOLD = 24
    /\ ChoiceIdle
    /\ MatchIdle
    /\ CloseIdle
    /\ ParseIdle
    /\ CarouselIdle
    /\ PinnedIdle
    /\ RunIdle
    /\ LocateIdle

CallExtractPostData ==
    /\ extracted.state = "pending"
    /\ extracted' = [state |-> "done", data |-> extract_post_data(detail_view)]
    /\ UNCHANGED <<detail_view, recencyVars, scanVars, parseVars, carouselVars,
                   pinnedVars, runVars, locateVars, closeVars, matchVars, choiceVars>>

NextExtract == CallExtractPostData

SpecExtract == InitExtract /\ [][NextExtract]_vars

(***************************************************************************)
(* Specification of successive calls of _close_post_dialog.                *)
(***************************************************************************)
InitClose ==
    /\ close_pc = "idle"
    /\ close_calls = 0
    /\ releases = <<>>
    /\ RecencyIdle
    /\ ScanAt("off")
    /\ HOURS_THRESHOLD = 24
    /\ ChoiceIdle
    /\ MatchIdle
    /\ ParseIdle
    /\ CarouselIdle
    /\ PinnedIdle
    /\ RunIdle
    /\ LocateIdle
    /\ ExtractIdle

\* _close_post_dialog is called.
CloseCall ==
    /\ close_pc = "idle"
    /\ close_calls < MaxCloses
    /\ close_calls' = close_calls + 1
    /\ releases' = Append(releases, [query |-> "pending", attempts |-> <<>>])
    /\ close_pc' = "query"
    /\ UNCHANGED <<recencyVars, scanVars, parseVars, carouselVars, pinnedVars,
                   runVars, locateVars, extractVars, matchVars, choiceVars>>

\* Lines 878-879: query_selector finds the close control, finds none, or
\* raises (line 887).
CloseQuery ==
    /\ close_pc = "query"
    /\ \E outcome \in {"found", "absent", "raises"} :
        /\ releases' = [releases EXCEPT ![Len(releases)].query = outcome]
        /\ close_pc' = CASE outcome = "found" -> "click"
                         [] outcome = "absent" -> "escape"
                         [] OTHER -> "fallback"
    /\ UNCHANGED <<close_calls, recencyVars, scanVars, parseVars, carouselVars,
                   pinnedVars, runVars, locateVars, extractVars, matchVars, choiceVars>>

\* Lines 881-882: close_button.click(), which returns or raises.
CloseClick ==
    /\ close_pc = "click"
    /\ Issue("click")
    /\ \E ok \in BOOLEAN : close_pc' = IF ok THEN "idle" ELSE "fallback"
    /\ UNCHANGED <<close_calls, recencyVars, scanVars, parseVars, carouselVars,
                   pinnedVars, runVars, locateVars, extractVars, matchVars, choiceVars>>

\* Lines 883-885: keyboard.press("Escape"), which returns or raises.
CloseEscape ==
    /\ close_pc = "escape"
    /\ Issue("Escape")
    /\ \E ok \in BOOLEAN : close_pc' = IF ok THEN "idle" ELSE "fallback"
    /\ UNCHANGED <<close_calls, recencyVars, scanVars, parseVars, carouselVars,
                   pinnedVars, runVars, locateVars, extractVars, matchVars, choiceVars>>

\* Mutant: the last attempt has no handler of its own.
CloseFallback_Propagates ==
    /\ close_pc = "fallback"
    /\ Issue("Escape")
    /\ \E ok \in BOOLEAN : close_pc' = IF ok THEN "idle" ELSE "raised"
    /\ UNCHANGED <<close_calls, recencyVars, scanVars, parseVars, carouselVars,
                   pinnedVars, runVars, locateVars, extractVars, matchVars, choiceVars>>

\* Lines 887-893: the except clause presses Escape; whatever that raises
\* is dropped.
CloseFallback ==
    /\ close_pc = "fallback"
    /\ Issue("Escape")
    /\ close_pc' = "idle"
    /\ UNCHANGED <<close_calls, recencyVars, scanVars, parseVars, carouselVars,
                   pinnedVars, runVars, locateVars, extractVars, matchVars, choiceVars>>

NextClose ==
    \/ CloseCall
    \/ CloseQuery
    \/ CloseClick
    \/ CloseEscape
    \/ CloseFallback

SpecClose == InitClose /\ [][NextClose]_vars

(***************************************************************************)
(* Specification of one call of _is_pinned_post.                           *)
(***************************************************************************)
InitMatch ==
    /\ candidate_href \in CandidateHrefs \cup {<<>>}
    /\ pinned_list \in PinnedLists
    /\ href_read \in BOOLEAN
    /\ is_pinned = "pending"
    /\ RecencyIdle
    /\ ScanAt("off")
    /\ HOURS_THRESHOLD = 24
    /\ ChoiceIdle
    /\ ParseIdle
    /\ CarouselIdle
    /\ PinnedIdle
    /\ RunIdle
    /\ LocateIdle
    /\ ExtractIdle
    /\ CloseIdle

CallIsPinnedPost ==
    /\ is_pinned = "pending"
    /\ is_pinned' = IF is_pinned_post(candidate_href, pinned_list, href_read)
                    THEN "True" ELSE "False"
    /\ UNCHANGED <<candidate_href, pinned_list, href_read, recencyVars,
                   scanVars, parseVars, carouselVars, pinnedVars, runVars,
                   locateVars, extractVars, closeVars, choiceVars>>

NextMatch == CallIsPinnedPost

SpecMatch == InitMatch /\ [][NextMatch]_vars

(***************************************************************************)
(* Specification of the URL taken from one image node.                     *)
(***************************************************************************)
InitChoice ==
    /\ \E n \in 0..MaxSrcset, described \in BOOLEAN, style \in SrcsetStyles,
          has_srcset \in BOOLEAN, src \in SrcValues :
            image_node = ImageNode(n, described, style, has_srcset, src)
    /\ call_site \in {"first", "loop"}
    /\ \E before \in {<<>>, << <<"u", "r", "l", "1">> >>,
                      << <<"u", "r", "l", "2">>, <<"s", "r", "c">> >>} :
          /\ call_site = "first" => before = <<>>
          /\ collected = [before |-> before, after |-> before]
    /\ url_taken = <<"p", "e", "n", "d", "i", "n", "g">>
    /\ RecencyIdle
    /\ ScanAt("off")
    /\ HOURS_THRESHOLD = 24
    /\ ParseIdle
    /\ CarouselIdle
    /\ PinnedIdle
    /\ RunIdle
    /\ LocateIdle
    /\ ExtractIdle
    /\ CloseIdle
    /\ MatchIdle

\* Lines 782-798 or 851-865 for the image node found.
TakeUrl ==
    /\ url_taken = <<"p", "e", "n", "d", "i", "n", "g">>
    /\ \E url \in {ChooseUrl(image_node.srcset, image_node.src)} :
        /\ url_taken' = url
        /\ collected' = [collected EXCEPT !.after = AppendUrl(collected.before, url)]
    /\ UNCHANGED <<image_node, call_site, recencyVars, scanVars, parseVars,
                   carouselVars, pinnedVars, runVars, locateVars, extractVars,
                   closeVars, matchVars>>

NextChoice == TakeUrl

SpecChoice == InitChoice /\ [][NextChoice]_vars
(***************************************************************************)
(* Properties of the scan (specification Spec).                            *)
(***************************************************************************)

\* C1: once a candidate has been extracted with an 'old' token in its display
\* text, the scan returns without another click: that candidate is the last
\* one clicked, and it is in the result only as the kept 'yesterday' post of
\* a run whose threshold is at least 48 hours.  On a feed without pinned
\* entries whose first two candidates were kept and whose third carries the
\* old text, the result is exactly <<1, 2>>, three candidates were clicked
\* and processed_count is 3.
C1_EarlyStop ==
    /\ oldSeenAt # 0 =>
        /\ pc \in {"classify", "returned"}
        /\ clicked # <<>>
        /\ clicked[Len(clicked)] = oldSeenAt
        /\ \A k \in 1..Len(recent_posts) :
              recent_posts[k] = oldSeenAt =>
                  HOURS_THRESHOLD >= YesterdayThreshold
    /\ ( /\ pc = "returned"
         /\ pinned_posts = <<>>
         /\ oldSeenAt = 3
         /\ Len(recent_posts) = 2
         /\ HOURS_THRESHOLD < YesterdayThreshold )
       => /\ recent_posts = <<1, 2>>
          /\ clicked = <<1, 2, 3>>
          /\ processed_count = 3

\* C1 witness: a feed of at least four candidates, scan stopped at the third.
C1_Witness ==
    /\ pc = "returned"
    /\ Len(post_elements) >= 4
    /\ pinned_posts = <<>>
    /\ HOURS_THRESHOLD = 24
    /\ oldSeenAt = 3
    /\ recent_posts = <<1, 2>>
    /\ clicked = <<1, 2, 3>>
    /\ processed_count = 3

\* C2 (as claimed): between two candidates and at the return of the scan,
\* every detail view that a click opened has been closed by a call of
\* _close_post_dialog: no click is left without its close and no detail view
\* is showing.
C2_ScopedClose ==
    pc \in {"loop", "returned"} => ~closePending /\ ~dialogOpen

C4_ProcessedCap ==
    /\ Len(recent_posts) <= processed_count
    /\ processed_count <= MaxPostsToProcess
    /\ pc = "extract" => processed_count < MaxPostsToProcess
    /\ pc = "returned" /\ Len(recent_posts) = MaxPostsToProcess
          => clicked[Len(clicked)] = recent_posts[MaxPostsToProcess]

\* C4 witness: a feed of MaxFeed candidates, none pinned and none stale; the
\* first five were kept and the others never clicked.
C4_Witness ==
    /\ pc = "returned"
    /\ Len(post_elements) = MaxFeed
    /\ pinned_posts = <<>>
    /\ ~staleSeen
    /\ oldSeenAt = 0
    /\ recent_posts = <<1, 2, 3, 4, 5>>
    /\ clicked = <<1, 2, 3, 4, 5>>
    /\ processed_count = MaxPostsToProcess

\* C5 (as claimed): an iteration whose extraction returns None adds one to
\* processed_count and nothing to the result.
C5_NotFoundCounts ==
    [][pc = "extract" /\ pc' = "loop"
          => processed_count' = processed_count + 1 /\ recent_posts' = recent_posts]_vars

\* C6 (as claimed): as soon as an extracted candidate is judged
\* out-of-window, by its display text or by the numeric comparison, the scan
\* has returned.
C6_StopAtFirstStale ==
    staleSeen => pc = "returned"

\* C6 (amended): the result holds no post after the first candidate whose
\* display text has an 'old' token; a candidate whose text has no vocabulary
\* token and whose instant is older than the threshold is left out of the
\* result and the scan goes on with the next candidate.
C6_StopOnlyAtOldText ==
    /\ [](oldSeenAt # 0 =>
            \A k \in 1..Len(recent_posts) : recent_posts[k] <= oldSeenAt)
    /\ [][ ( /\ pc = "classify"
             /\ ~AnyIn(OldIndicators, Lower(post_data.timestamp_text))
             /\ ~AnyIn(RecentIndicators, Lower(post_data.timestamp_text))
             /\ ~post_data.timestamp.aware
             /\ post_data.timestamp.age > HOURS_THRESHOLD )
           => /\ pc' = "loop"
              /\ i' = i + 1
              /\ recent_posts' = recent_posts
              /\ staleSeen' ]_vars

\* C6 witness: the first candidate was skipped as out-of-window by the
\* numeric comparison, and the second, opened after it, was kept.
C6_Witness ==
    /\ pc = "returned"
    /\ staleSeen
    /\ oldSeenAt = 0
    /\ pinned_posts = <<>>
    /\ clicked = <<1, 2>>
    /\ recent_posts = <<2>>
    /\ processed_count = 2

\* C7: when no strategy of _get_post_elements yields an image-bearing match,
\* the scan has returned an empty list: nothing was clicked, no detail view
\* is open and _identify_pinned_posts was not called.
C7_NoCandidates ==
    noImageMatch =>
        /\ pc = "returned"
        /\ post_elements = <<>>
        /\ recent_posts = <<>>
        /\ clicked = <<>>
        /\ ~dialogOpen
        /\ pinnedCalls = 0
        /\ locateCalls = 1

\* C7 witness: the locator ran on a page without image-bearing matches.
C7_Witness ==
    /\ noImageMatch
    /\ pc = "returned"
    /\ navigated = "loaded"
    /\ scrollCalls = 1

\* C8: when page.goto fails (timeout or any other error), the scan has
\* returned an empty list, raised nothing, and did not scroll, locate
\* candidates, identify pinned entries or click.
C8_NavigationFailure ==
    navigated \in {"timeout", "error"} =>
        /\ pc = "returned"
        /\ recent_posts = <<>>
        /\ scrollCalls = 0
        /\ locateCalls = 0
        /\ pinnedCalls = 0
        /\ clicked = <<>>
        /\ ~dialogOpen

\* C8 witness: navigation failed with an error other than a timeout.
C8_Witness ==
    navigated = "error" /\ pc = "returned"

(***************************************************************************)
(* Properties of is_within_hours (specification SpecRecency).              *)
(***************************************************************************)

\* is_within_hours has been called and its outcome recorded.
Called == verdict \in {"True", "False", "TypeError"}

\* C9: for a display text with a 'recent' token, is_within_hours returns
\* True whatever the threshold and the instant.
C9_RecentTokenWithin ==
    Called /\ AnyIn(RecentIndicators, Lower(timestamp_text)) => verdict = "True"

\* C9 witness: "today" (which also has the old token "day") with threshold 0
\* and an instant 100 hours old.
C9_Witness ==
    /\ verdict = "True"
    /\ timestamp_text = <<"t", "o", "d", "a", "y">>
    /\ hours_threshold = 0
    /\ timestamp = [age |-> 100, aware |-> FALSE]

\* C10 (as claimed): for a display text with an 'old' token that does not
\* name yesterday, is_within_hours returns False.
C10_OldTokenNotWithin ==
    ( /\ Called
      /\ AnyIn(OldIndicators, Lower(timestamp_text))
      /\ ~Contains(timestamp_text, YesterdayZh)
      /\ ~Contains(Lower(timestamp_text), YesterdayEn) )
    => verdict = "False"

\* C10 (amended): for a display text with an 'old' token and no 'recent'
\* token that contains neither YesterdayZh nor (in lower case) YesterdayEn,
\* is_within_hours returns False whatever the threshold and the instant.
C10_OldTokenWithoutRecent ==
    ( /\ Called
      /\ AnyIn(OldIndicators, Lower(timestamp_text))
      /\ ~AnyIn(RecentIndicators, Lower(timestamp_text))
      /\ ~NamesYesterday(timestamp_text) )
    => verdict = "False"

\* C10 witness: "3 days ago" with threshold 72 and an instant 0 hours old.
C10_Witness ==
    /\ verdict = "False"
    /\ timestamp_text = <<"3", " ", "d", "a", "y", "s", " ", "a", "g", "o">>
    /\ hours_threshold = 72
    /\ timestamp = [age |-> 0, aware |-> FALSE]

\* C11: for a display text that contains YesterdayZh or YesterdayEn (and no
\* 'recent' token, which is tested first), is_within_hours returns True
\* exactly when hours_threshold >= 48, whatever the instant: False at 47, True
\* at 48.
C11_YesterdayThreshold ==
    ( /\ Called
      /\ NamesYesterday(timestamp_text)
      /\ ~AnyIn(RecentIndicators, Lower(timestamp_text)) )
    => /\ verdict \in {"True", "False"}
       /\ verdict = "True" <=> hours_threshold >= 48

\* C11 witness: "yesterday" with threshold 48 and an instant 100 hours old.
C11_Witness ==
    /\ verdict = "True"
    /\ timestamp_text = YesterdayEn
    /\ hours_threshold = 48
    /\ timestamp = [age |-> 100, aware |-> FALSE]

(***************************************************************************)
(* Properties of parse_instagram_timestamp (specification SpecParse).      *)
(***************************************************************************)

\* parse_instagram_timestamp has been called and its outcome recorded.
ParseCalled == parsed.raises \notin {"pending", "off"}

\* dt is a datetime of the calendar.
IsDateTime(dt) ==
    /\ ValidFields(dt.year, dt.month, dt.day, dt.hour, dt.minute)
    /\ dt.second \in 0..59

\* The call returned the datetime that lies n seconds before now.
ReturnedSecondsAgo(n) ==
    /\ parsed.raises = "none"
    /\ IsDateTime(parsed.dt)
    /\ ToSeconds(parsed.dt) = ToSeconds(now) - n

\* C12: for every count N of Counts, "<N> hours" is parsed to now minus N
\* hours and "<N> days" to now minus N days; with now = 2024-01-10T12:00:00,
\* "3 hours" gives 2024-01-10T09:00:00 and "2 days" gives 2024-01-08T12:00:00.
C12_RelativeHoursAndDays ==
    ParseCalled =>
        /\ \A c \in Counts :
            /\ timestamp_text = c.text \o <<" ", "h", "o", "u", "r", "s">>
                  => ReturnedSecondsAgo(3600 * c.value)
            /\ timestamp_text = c.text \o <<" ", "d", "a", "y", "s">>
                  => ReturnedSecondsAgo(86400 * c.value)
        /\ ( /\ now = DateTime(2024, 1, 10, 12, 0, 0)
             /\ timestamp_text = <<"3", " ", "h", "o", "u", "r", "s">> )
           => parsed = Returns(DateTime(2024, 1, 10, 9, 0, 0))
        /\ ( /\ now = DateTime(2024, 1, 10, 12, 0, 0)
             /\ timestamp_text = <<"2", " ", "d", "a", "y", "s">> )
           => parsed = Returns(DateTime(2024, 1, 8, 12, 0, 0))

\* C12 witness: "36 hours" at 2024-03-01T00:30:15 is 2024-02-28T12:30:15
\* (across the leap day).
C12_Witness ==
    /\ now = DateTime(2024, 3, 1, 0, 30, 15)
    /\ timestamp_text = <<"3", "6", " ", "h", "o", "u", "r", "s">>
    /\ parsed = Returns(DateTime(2024, 2, 28, 12, 30, 15))

\* C13 (as claimed): parse_instagram_timestamp raises for no text, and a
\* 'today' text with an out-of-range HH:MM or a dated text with an
\* impossible month or day yields now.
C13_ParseNeverRaises ==
    ParseCalled =>
        /\ parsed.raises = "none"
        /\ ( \/ /\ AnyIn(TodayTerms, Lower(timestamp_text))
                /\ HasClock(timestamp_text)
                /\ ~(ClockHour(timestamp_text) \in 0..23
                        /\ ClockMinute(timestamp_text) \in 0..59)
             \/ timestamp_text \in
                    { <<"2", "0", "2", "4", "zh_nian", "1", "3", "zh_yue", "5", "zh_ri">>,
                      <<"2", "0", "2", "4", "zh_nian", "2", "zh_yue", "3", "0", "zh_ri">> } )
           => parsed = Returns(now)

\* C14 (as claimed): is_within_hours raises for no instant it can receive,
\* a timezone-aware one included.
C14_RecencyNeverRaises ==
    Called => verdict \in {"True", "False"}

(***************************************************************************)
(* Properties of _extract_image_urls (specification SpecCarousel).         *)
(***************************************************************************)

\* C15: at every point of _extract_image_urls, and so in the list it
\* returns, image_urls has at most 10 URLs and no URL twice, also for a
\* post whose 'next' control never disappears and wraps.
C15_CarouselBounded ==
    /\ Len(image_urls) <= 10
    /\ \A a, b \in 1..Len(image_urls) : image_urls[a] = image_urls[b] => a = b

\* C15 witness: a wrapping post of 3 images was stepped through all nine
\* iterations and the list returned holds its 3 URLs.
C15_Witness ==
    /\ cpc = "done"
    /\ carousel.len = 3 /\ carousel.wraps
    /\ step = max_images - 1
    /\ Len(image_urls) = 3

\* Ten URLs are returned from a post of eleven images.
C15_WitnessFull ==
    /\ cpc = "done"
    /\ carousel.len = 11
    /\ Len(image_urls) = 10

(***************************************************************************)
(* Properties of _identify_pinned_posts (specification SpecPinned).        *)
(***************************************************************************)

PinnedCalled == chain.state = "done"

Tried(name) == \E k \in 1..Len(chain.tried) : chain.tried[k] = name

\* With the configured priority list the chain is the function the scan
\* calls.
PinnedChainIsIdentify ==
    (PinnedCalled /\ strategies = Strategies)
        => chain.result = identify_pinned_posts(profile_page)

\* The icon_matching script ran and returned no href, without error.
IconYieldsNothing ==
    /\ Configured(strategies, "icon_matching")
    /\ ~profile_page.icon.raises
    /\ profile_page.icon.hrefs = <<>>

\* C16 (as claimed): when icon_matching yields nothing without error the
\* chain proceeds: with marker nodes on the page spatial_proximity is
\* tried, and with no marker node and a candidate first_post_fallback is.
C16_ChainAdvances ==
    (PinnedCalled /\ strategies = Strategies /\ IconYieldsNothing)
        => /\ profile_page.markers > 0 => Tried("spatial_proximity")
           /\ ( /\ profile_page.markers = 0
                /\ Len(profile_page.all_post_elements) > 0 )
              => Tried("first_post_fallback")

C18_OneStrategyOutput ==
    PinnedCalled =>
        /\ chain.result # <<>> =>
              /\ chain.tried # <<>>
              /\ chain.result = chain.output[chain.tried[Len(chain.tried)]]
        /\ \A k \in 1..Len(chain.tried) :
              chain.output[chain.tried[k]] # <<>> => k = Len(chain.tried)
        /\ \A name \in StrategyNames : ~Tried(name) => chain.output[name] = <<>>
        /\ chain.result = <<>> =>
              \A name \in StrategyNames : chain.output[name] = <<>>

\* C18 witness: spatial_proximity matched the marker to the second
\* candidate; dom_traversal, which would have found the first, and the
\* fallback are not tried, and the second candidate alone is returned.
C18_Witness ==
    /\ PinnedCalled
    /\ strategies = <<"spatial_proximity", "dom_traversal", "first_post_fallback">>
    /\ profile_page.spatial = <<PostHref(2)>>
    /\ profile_page.traversal = [raises |-> FALSE, hrefs |-> <<PostHref(1)>>]
    /\ chain.tried = <<"spatial_proximity">>
    /\ chain.result = <<PostHref(2)>>

(***************************************************************************)
(* Failure isolation in the loop of extract_recent_posts (Spec).           *)
(***************************************************************************)

\* click() was called on candidate i and _extract_post_data was not reached.
ClickFailed ==
    /\ pc = "loop"
    /\ clicked' = Append(clicked, i)
    /\ pc' # "extract"

\* _extract_post_data was called for candidate i and gave no post_data.
ExtractFailed ==
    /\ pc = "extract"
    /\ pc' # "classify"

\* The classification of candidate i raises.
ClassifyFails ==
    /\ pc = "classify"
    /\ ~TextIsOld(post_data.timestamp_text)
    /\ is_within_hours(post_data.timestamp, HOURS_THRESHOLD,
                       post_data.timestamp_text) = "TypeError"

\* C19: a step in which clicking, extracting or classifying candidate i
\* fails keeps recent_posts as it is, moves on to candidate i + 1 and stays
\* in the loop (extract_recent_posts does not raise).
C19_FailureIsolated ==
    [][ (ClickFailed \/ ExtractFailed \/ ClassifyFails)
            => /\ recent_posts' = recent_posts
               /\ i' = i + 1
               /\ pc' = "loop" ]_vars

\* C19 witness: candidate 1 was kept, candidate 2 was clicked and failed
\* before it was counted, candidate 3 was then processed and kept, and the
\* list was returned.
C19_Witness ==
    /\ pc = "returned"
    /\ clicked = <<1, 2, 3>>
    /\ processed_count = 2
    /\ recent_posts = <<1, 3>>

\* A classification that raised was survived: the candidate after it was
\* clicked while an earlier post is in the list.
C19_WitnessClassify ==
    /\ ClassifyFails
    /\ recent_posts # <<>>
    /\ i < Len(post_elements)

(***************************************************************************)
(* Properties of the run over USERS_TO_MONITOR (specification SpecRun).    *)
(***************************************************************************)

\* Something failed while the profile was handled.
Failed(event) ==
    \/ event.stage \in {"mkdir", "navigate", "scroll", "locate"}
    \/ event.raises_at > 0
    \/ event.absorbed

\* The profiles handled are the first ones of USERS_TO_MONITOR, in list
\* order, and at the end of the run every one of them was handled.
HandledInOrder ==
    /\ Len(handled) <= Len(USERS_TO_MONITOR)
    /\ \A k \in 1..Len(handled) : handled[k].username = USERS_TO_MONITOR[k]
    /\ mpc = "loop" => Len(handled) = user_idx - 1
    /\ mpc = "done" => Len(handled) = Len(USERS_TO_MONITOR)

RECURSIVE SumCounts(_)
SumCounts(list) ==
    IF list = <<>> THEN 0
    ELSE SumCounts(SubSeq(list, 1, Len(list) - 1)) + list[Len(list)].posts_count

\* C20 (as claimed): every failure while a profile is handled gives the
\* count 0 for it, and the later profiles are handled in list order.
C20_AnyFailureCountsZero ==
    /\ HandledInOrder
    /\ \A k \in 1..Len(handled) :
          Failed(handled[k].event) => handled[k].posts_count = 0

\* C20 (amended): a failure that ends the handling of a profile (failed
\* navigation, no candidate, an exception that reaches
\* download_posts_for_user) gives the count 0 for it; a failed image
\* download or caption save is absorbed and the post is still counted; the
\* later profiles are handled in list order, and the total is the sum of
\* the counts.
C20_ProfileIsolation ==
    /\ HandledInOrder
    /\ \A k \in 1..Len(handled) :
          LET event == handled[k].event
          IN  /\ ( \/ event.stage \in {"mkdir", "navigate", "scroll", "locate"}
                   \/ event.raises_at > 0 )
                 => handled[k].posts_count = 0
              /\ (event.stage = "scan" /\ event.raises_at = 0)
                 => handled[k].posts_count = event.posts
    /\ total_downloaded = SumCounts(handled)

\* C20 witness: saving the second post of the first profile raised (count
\* 0), the scroll of the second raised (count 0), and the third profile was
\* then handled and its two posts counted.
C20_Witness ==
    /\ mpc = "done"
    /\ Len(handled) = 3
    /\ handled[1].event = [stage |-> "scan", posts |-> 2, raises_at |-> 2, absorbed |-> FALSE]
    /\ handled[1].posts_count = 0
    /\ handled[2].event = Aborts("scroll")
    /\ handled[3].posts_count = 2
    /\ total_downloaded = 2

(***************************************************************************)
(* Properties of _get_post_elements (specification SpecLocate).            *)
(***************************************************************************)

LocateCalled == located.state = "done"

\* Selector s answers without error with at least one image-bearing match.
HasImageMatch(s) ==
    /\ ~feed_page.selectors[s].raises
    /\ \E k \in 1..Len(feed_page.selectors[s].matches) :
          feed_page.selectors[s].matches[k].has_img

\* C21: the selectors are queried in list order up to the first one with
\* an image-bearing match, whose image-bearing matches are returned in DOM
\* order; the XPath strategy is queried only after every selector failed,
\* and the list returned is empty only when every strategy failed.
C21_FirstImageBearingSelectorWins ==
    LocateCalled =>
        /\ \A k \in 1..Len(located.queried) : located.queried[k] = k
        /\ \A s \in 1..NumSelectors :
              (HasImageMatch(s) /\ \A t \in 1..(s - 1) : ~HasImageMatch(t))
                  => /\ Len(located.queried) = s
                     /\ located.result =
                            HrefsOf(SelectSeq(feed_page.selectors[s].matches,
                                              LAMBDA e : e.has_img))
        /\ (\A s \in 1..NumSelectors : ~HasImageMatch(s))
              => /\ Len(located.queried) = XPathStrategy
                 /\ located.result = IF feed_page.xpath.raises THEN <<>>
                                     ELSE HrefsOf(feed_page.xpath.links)
        /\ located.result = <<>>
              => /\ \A s \in 1..NumSelectors : ~HasImageMatch(s)
                 /\ (feed_page.xpath.raises \/ feed_page.xpath.links = <<>>)

\* C21 witness: selector 1 raises, selector 2 matches the navigation link
\* only, selector 3 matches post links around it and wins with the two
\* posts in DOM order, although selector 4 matches the posts too.
C21_Witness ==
    /\ LocateCalled
    /\ feed_page.selectors[1].raises
    /\ feed_page.selectors[2].matches = <<NavLink>>
    /\ feed_page.selectors[3].matches = <<FeedLinks(2)[2], NavLink, FeedLinks(2)[1]>>
    /\ feed_page.selectors[4].matches = FeedLinks(2)
    /\ located.queried = <<1, 2, 3>>
    /\ located.result = <<PostHref(2), PostHref(1)>>

(***************************************************************************)
(* Properties of _extract_post_data (specification SpecExtract).           *)
(***************************************************************************)

ExtractCalled == extracted.state = "done"

\* The first CSS selector that does not answer "no node" is number k.
FirstCssAnswer(k) ==
    /\ detail_view.css[k].state # "absent"
    /\ \A j \in 1..(k - 1) : detail_view.css[j].state = "absent"

\* The time node the extraction works on: the one the XPath query found,
\* else the one the first answering CSS selector found.
MatchedNodes ==
    IF detail_view.xpath.state = "found" THEN {detail_view.xpath}
    ELSE {detail_view.css[k] : k \in {j \in 1..NumTimeSelectors :
              FirstCssAnswer(j) /\ detail_view.css[j].state = "found"}}

\* An exception reaches the handler of _extract_post_data (lines 692-694):
\* a CSS query raises, the display text of the matched node cannot be
\* read, the attribute of a CSS-matched node does not parse, or
\* parse_instagram_timestamp raises on the display text.
ExceptionReachesHandler ==
    /\ detail_view.dialog_shown
    /\ \/ /\ detail_view.xpath.state # "found"
          /\ \E k \in 1..NumTimeSelectors :
                /\ FirstCssAnswer(k)
                /\ \/ detail_view.css[k].state = "raises"
                   \/ detail_view.css[k].attr = "malformed"
       \/ \E node \in MatchedNodes : node.text_raises
       \/ \E node \in MatchedNodes :
            /\ node.attr # "valid"
            /\ node.text = <<"t", "o", "d", "a", "y", " ", "2", "5", ":", "0", "0">>

\* C22: _extract_post_data returns None or a dict (it does not raise);
\* None when the wait for the dialog fails, when no selector finds a time
\* node, and when an exception reaches its handler; a dict carries an
\* instant, a non-empty author, a caption string and a list of at most 10
\* image URLs.
C22_ExtractNeverRaises ==
    ExtractCalled =>
        LET data == extracted.data
        IN  /\ data.exit \in {"wait", "no_node", "except", "return1", "return2"}
            /\ data.found <=> data.exit \in {"return1", "return2"}
            /\ ~detail_view.dialog_shown => ~data.found
            /\ ( /\ detail_view.xpath.state # "found"
                 /\ \A k \in 1..NumTimeSelectors : detail_view.css[k].state = "absent" )
               => ~data.found
            /\ ExceptionReachesHandler => ~data.found
            /\ data.found =>
                  /\ IsDateTime(data.timestamp)
                  /\ Truthy(data.author)
                  /\ data.caption # NoneText
                  /\ Len(data.image_urls) <= max_images

\* C22 witness: the XPath query raises, the first CSS selector finds a
\* node without attribute whose text 'today 25:00' makes the parser raise:
\* None is returned from the handler.
C22_Witness ==
    /\ ExtractCalled
    /\ detail_view.dialog_shown
    /\ detail_view.xpath.state = "raises"
    /\ detail_view.css[1] =
          [state |-> "found", text |-> <<"t", "o", "d", "a", "y", " ", "2", "5", ":", "0", "0">>,
           text_raises |-> FALSE, attr |-> "absent"]
    /\ extracted.data = NotFound("except")

\* A dict with every field is returned.
C22_WitnessFound ==
    /\ ExtractCalled
    /\ extracted.data.found
    /\ extracted.data.source = "display_text"
    /\ extracted.data.author = AuthorFound

\* C29 (as claimed): the timestamp of the dict is the instant of the
\* datetime attribute when the matched node has one, the display text
\* being kept as timestamp_text, and it is parsed from the display text
\* only when the attribute is absent.
C29_AttributeAuthoritative ==
    (ExtractCalled /\ extracted.data.found) =>
        \A node \in MatchedNodes :
            /\ node.attr = "valid"
                  => /\ extracted.data.timestamp = AttrInstant
                     /\ extracted.data.timestamp_text = node.text
            /\ extracted.data.source = "display_text" => node.attr = "absent"

(***************************************************************************)
(* Properties of _close_post_dialog (specification SpecClose).             *)
(***************************************************************************)

\* The calls that have returned.
ReturnedCalls ==
    IF close_pc = "idle" THEN 1..Len(releases) ELSE 1..(Len(releases) - 1)

\* C23: no call of _close_post_dialog raises, and every call that has
\* returned issued a release attempt: a click on the close control when
\* the query found it, followed by Escape only when the click failed, and
\* Escape when the control was not found or the query failed.
C23_CloseAlwaysReleases ==
    /\ close_pc \in {"off", "idle", "query", "click", "escape", "fallback"}
    /\ \A k \in ReturnedCalls :
          LET call == releases[k]
          IN  /\ call.attempts # <<>>
              /\ call.query = "found"
                    => call.attempts \in {<<"click">>, <<"click", "Escape">>}
              /\ call.query = "absent"
                    => call.attempts \in {<<"Escape">>, <<"Escape", "Escape">>}
              /\ call.query = "raises" => call.attempts = <<"Escape">>

\* C23 witness: the first call clicked the control, the second found no
\* control and pressed Escape, the third failed to click and pressed Escape.
C23_Witness ==
    /\ close_pc = "idle"
    /\ releases = << [query |-> "found", attempts |-> <<"click">>],
                     [query |-> "absent", attempts |-> <<"Escape">>],
                     [query |-> "found", attempts |-> <<"click", "Escape">>] >>

(***************************************************************************)
(* The append/stop decision of the scan (specification Spec).              *)
(***************************************************************************)

\* The candidate being classified shows a text with a 'recent' token.
ClassifiesRecentText ==
    /\ pc = "classify"
    /\ AnyIn(RecentIndicators, Lower(post_data.timestamp_text))

\* C24 (as claimed): a candidate whose display text has a 'recent' token,
\* for which is_within_hours returns True, is appended to recent_posts and
\* the scan goes on with the next candidate.
C24_RecentTokenAppended ==
    [][ ClassifiesRecentText
            => /\ is_within_hours(post_data.timestamp, HOURS_THRESHOLD,
                                  post_data.timestamp_text) = "True"
               /\ recent_posts' = Append(recent_posts, i)
               /\ i' = i + 1
               /\ pc' = "loop" ]_vars

\* The candidate being classified shows a text that names yesterday.
ClassifiesYesterday ==
    /\ pc = "classify"
    /\ NamesYesterday(post_data.timestamp_text)

\* C25: a candidate whose display text names yesterday is appended to
\* recent_posts exactly when HOURS_THRESHOLD >= 48, and in both cases the
\* scan returns at once; after the return recent_posts does not change, so
\* such a post can only be the last element of the result.
C25_YesterdayThenStop ==
    [][ /\ ClassifiesYesterday
            => /\ pc' = "returned"
               /\ recent_posts' = IF HOURS_THRESHOLD >= YesterdayThreshold
                                  THEN Append(recent_posts, i)
                                  ELSE recent_posts
        /\ pc = "returned" => recent_posts' = recent_posts ]_vars

\* C25 witness: with HOURS_THRESHOLD = 48 the second candidate, the first
\* to show an 'old' token, was kept as the last element and the scan
\* returned after two posts.
C25_Witness ==
    /\ pc = "returned"
    /\ HOURS_THRESHOLD = 48
    /\ oldSeenAt = 2
    /\ processed_count = 2
    /\ recent_posts = <<1, 2>>

\* With HOURS_THRESHOLD = 24 the scan returned at its second candidate,
\* which showed an 'old' token, without keeping it.
C25_WitnessDropped ==
    /\ pc = "returned"
    /\ HOURS_THRESHOLD = 24
    /\ oldSeenAt = 2
    /\ processed_count = 2
    /\ recent_posts = <<1>>

(***************************************************************************)
(* The numeric fallback of is_within_hours (specification SpecRecency).    *)
(***************************************************************************)

\* No display text is supplied, or it has no token of any vocabulary.
NoVocabulary(text) ==
    \/ ~Truthy(text)
    \/ /\ ~AnyIn(RecentIndicators, Lower(text))
       /\ ~NamesYesterday(text)
       /\ ~AnyIn(OldIndicators, Lower(text))

\* C26 (as claimed): without a display text, or with one that has no
\* recent, yesterday or old token, is_within_hours returns True exactly
\* when the age of the instant in hours is at most hours_threshold (True at
\* the boundary and for an instant in the future), for every instant.
C26_NumericFallback ==
    Called /\ NoVocabulary(timestamp_text)
        => verdict = IF timestamp.age <= hours_threshold THEN "True" ELSE "False"

(***************************************************************************)
(* The traversal of _extract_image_urls (specification SpecCarousel).      *)
(***************************************************************************)

\* C27 (as claimed): _extract_image_urls returns from its loop only when
\* the 'next' control is no longer found or 10 URLs are collected.
C27_AdvancesUntilTenUrls ==
    cpc = "done" =>
        \/ ~NextPresent(carousel, showing)
        \/ Len(image_urls) >= max_images

\* C27 (amended): _extract_image_urls returns from its loop only when the
\* 'next' control is no longer found or the control was clicked 9 times
\* (10 images were shown), whatever the number of URLs collected.
C27_AdvancesUntilTenShown ==
    cpc = "done" =>
        \/ ~NextPresent(carousel, showing)
        \/ step = max_images - 1

\* C27 witness: a post of 11 images was stepped through to its tenth image,
\* one image could not be read, and the list is returned with 9 URLs while
\* the control is still present.
C27_Witness ==
    /\ cpc = "done"
    /\ carousel.len = 11 /\ ~carousel.wraps
    /\ showing = 10
    /\ step = max_images - 1
    /\ Len(image_urls) = 9
    /\ NextPresent(carousel, showing)

\* Image k of a post that does not wrap was shown by a step of the loop
\* and its URL is not in the list: reading it failed.
Unread(k) ==
    /\ ~carousel.wraps
    /\ k \in 2..showing
    /\ ImageUrl(carousel, k) \notin Elements(image_urls)

\* C28 (as claimed): after a failure on a step, the reading of an image
\* included, nothing more is collected: no URL of a later image is in the
\* list.
C28_AnyFailureStops ==
    \A k \in 1..showing :
        Unread(k) => \A j \in (k + 1)..carousel.len :
                        ImageUrl(carousel, j) \notin Elements(image_urls)

\* C28 (amended): a step that raises (the query for the control, the click,
\* the reading of the image) ends the traversal with image_urls as it was
\* before the step, and _extract_image_urls returns it; a step that does not
\* raise stays in the loop whether or not it read a URL, appending at most
\* the URL of the image then showing; after the return nothing changes.
C28_RaiseStopsUnreadSkips ==
    [][ /\ (cpc = "loop" /\ cpc' = "caught") => image_urls' = image_urls
        /\ (cpc = "first" /\ cpc' = "caught")
              => image_urls' \in {<<>>, <<ImageUrl(carousel, 1)>>}
        /\ (cpc = "loop" /\ step' = step + 1 /\ cpc' # "caught")
              => /\ cpc' = "loop"
                 /\ image_urls' \in
                        {image_urls,
                         Append(image_urls, ImageUrl(carousel, showing'))}
        /\ cpc \in {"done", "caught"} => UNCHANGED carouselVars ]_vars

\* C28 witness: the second image of a post of 3 was not read, the third
\* was collected, and a raise in the step after returned the two URLs.
C28_Witness ==
    /\ cpc = "caught"
    /\ carousel.len = 3 /\ carousel.wraps
    /\ step = 3
    /\ image_urls = <<ImageUrl(carousel, 1), ImageUrl(carousel, 3)>>

(***************************************************************************)
(* Properties of _is_pinned_post (specification SpecMatch).                *)
(***************************************************************************)

MatchCalled == is_pinned \in {"True", "False"}

\* Some entry of pinned_list and candidate_href are two ways of writing
\* the same post.
SamePostPinned ==
    \E post \in MatchPosts :
        /\ candidate_href \in Representations(post)
        /\ \E k \in 1..Len(pinned_list) : pinned_list[k] \in Representations(post)

\* C30: when the href of the candidate was read and it and some entry of
\* pinned_posts denote the same post, each written as a full URL, a
\* relative path or the bare ID segment after /p/ or /reel/,
\* _is_pinned_post returns True; it returns True whenever one of the two
\* strings is a substring of the other or their ID segments are equal; and
\* it returns False for an empty pinned_posts.
C30_SamePostMatches ==
    MatchCalled =>
        /\ href_read /\ SamePostPinned => is_pinned = "True"
        /\ ( /\ href_read
             /\ candidate_href # <<>>
             /\ \E k \in 1..Len(pinned_list) :
                   \/ Contains(pinned_list[k], candidate_href)
                   \/ Contains(candidate_href, pinned_list[k])
                   \/ \E post \in MatchPosts :
                         /\ Contains(candidate_href, post.kind \o post.id \o <<"/">>)
                         /\ Contains(pinned_list[k], post.kind \o post.id \o <<"/">>) )
              => is_pinned = "True"
        /\ pinned_list = <<>> => is_pinned = "False"

\* C30 witness: the relative path /reel/Dy/ is matched by the full URL of
\* the same post, the second entry of pinned_posts.
C30_Witness ==
    /\ is_pinned = "True"
    /\ candidate_href = <<"/", "r", "e", "e", "l", "/", "D", "y", "/">>
    /\ Len(pinned_list) = 2
    /\ pinned_list[1] = <<"C", "x", "1">>
    /\ pinned_list[2] = FullUrl([kind |-> SlashReel, id |-> <<"D", "y">>])

\* A bare ID is matched by the relative path of the same post.
C30_WitnessBareId ==
    /\ is_pinned = "True"
    /\ candidate_href = <<"D", "y">>
    /\ pinned_list = << <<"/", "p", "/", "D", "y", "/">> >>

\* Nothing is pinned: the call returns False.
C30_WitnessEmpty ==
    /\ is_pinned = "False"
    /\ pinned_list = <<>>
    /\ candidate_href # <<>>
    /\ href_read

(***************************************************************************)
(* Order, frame and counters of extract_recent_posts (specification Spec). *)
(***************************************************************************)

\* seq lists positions of post_elements in increasing order.
IncreasingPositions(seq) ==
    /\ \A k \in 1..Len(seq) : seq[k] \in 1..Len(post_elements)
    /\ \A a, b \in 1..Len(seq) : a < b => seq[a] < seq[b]

\* C31: recent_posts lists candidates of post_elements in feed order, each
\* at most once, all of them candidates already visited; and a step either
\* leaves recent_posts as it is or appends the candidate being visited, so
\* a post once appended is never removed or moved.
C31_FeedOrder ==
    /\ [](/\ IncreasingPositions(recent_posts)
          /\ \A k \in 1..Len(recent_posts) : recent_posts[k] <= i)
    /\ [][recent_posts' \in {recent_posts, Append(recent_posts, i)}]_vars

\* C31 witness: of four candidates the second and the fourth were kept,
\* the first and the third were opened and left out.
C31_Witness ==
    /\ pc = "returned"
    /\ Len(post_elements) = 4
    /\ clicked = <<1, 2, 3, 4>>
    /\ recent_posts = <<2, 4>>

\* C32: _identify_pinned_posts is called at most once in a scan, after the
\* candidates were located and before the first click, and pinned_posts
\* does not change in any step after that call.
C32_PinnedComputedOnce ==
    /\ [](/\ pinnedCalls <= 1
          /\ pinnedCalls = 1 => post_elements # <<>> /\ locateCalls >= 1
          /\ pinnedCalls = 0 => clicked = <<>> /\ pinned_posts = <<>>)
    /\ [][pinnedCalls = 1 => pinned_posts' = pinned_posts]_vars

\* C32 witness: a pinned entry was identified, two candidates after it
\* were opened and classified, and the scan returned with the same set.
C32_Witness ==
    /\ pc = "returned"
    /\ pinnedCalls = 1
    /\ pinned_posts # <<>>
    /\ clicked = <<2, 3>>
    /\ processed_count = 2

\* C35: at every point of the scan
\* len(recent_posts) <= processed_count <= max_posts_to_process, and no
\* step decreases processed_count.
C35_CountersOrdered ==
    /\ [](/\ Len(recent_posts) <= processed_count
          /\ processed_count <= MaxPostsToProcess)
    /\ [][processed_count' >= processed_count]_vars

\* C35 witness: five posts were processed, three of them kept.
C35_Witness ==
    /\ pc = "returned"
    /\ processed_count = MaxPostsToProcess
    /\ Len(recent_posts) = 3
    /\ Len(clicked) = MaxFeed

\* The scan is over: a list was returned or an exception left the method.
ScanOver == pc \in {"returned", "raised"}

\* C36: every scan ends (a list is returned or an exception leaves the
\* method), whatever the browser calls give; until then the candidates are
\* visited in the order of post_elements: the position i never goes back,
\* and the candidates clicked are increasing positions, so that none is
\* clicked twice or revisited after a skip, a None or an exception.
C36_ScanTerminates ==
    /\ <>ScanOver
    /\ [](/\ IncreasingPositions(clicked)
          /\ \A k \in 1..Len(clicked) : clicked[k] <= i)
    /\ [][i' >= i]_vars

\* C36 witness: the first candidate was skipped as pinned, the second and
\* the third were clicked and abandoned (None or an exception), the fourth
\* was kept, and the scan returned at the end of the list.
C36_Witness ==
    /\ pc = "returned"
    /\ Len(post_elements) = 4
    /\ pinned_posts # <<>>
    /\ clicked = <<2, 3, 4>>
    /\ processed_count = 1
    /\ recent_posts = <<4>>

(***************************************************************************)
(* The order of the rules of parse_instagram_timestamp (specification      *)
(* SpecParse).                                                             *)
(***************************************************************************)

\* Rule r (1: seconds / just now, 2: minutes, 3: hours, 4: yesterday,
\* 5: today, 6: days, 7: weeks, 8: months, 9: years, 10: explicit
\* <year>nian<month>yue<day>ri date, 11: generic parser) applies to text.
RuleApplies(r, text) ==
    CASE r = 1 -> AnyIn(NowTerms, Lower(text))
      [] r = 2 -> HasNumberUnit(Lower(text), MinuteUnits)
      [] r = 3 -> HasNumberUnit(Lower(text), HourUnits)
      [] r = 4 -> AnyIn(YesterdayTerms, Lower(text))
      [] r = 5 -> AnyIn(TodayTerms, Lower(text))
      [] r = 6 -> HasNumberUnit(Lower(text), DayUnits)
      [] r = 7 -> HasNumberUnit(Lower(text), WeekUnits)
      [] r = 8 -> HasNumberUnit(Lower(text), MonthUnits) /\ ~HasZhDate(text)
      [] r = 9 -> HasNumberUnit(Lower(text), YearUnits) /\ ~HasZhDate(text)
      [] r = 10 -> ZhDate4Starts(text) # {}
      [] OTHER -> TRUE

\* What rule r gives for text when now is t and dateutil does du.
RuleGives(r, text, t, du) ==
    CASE r = 1 -> Returns(t)
      [] r = 2 -> Returns(MinusSeconds(t, 60 * NumberBefore(Lower(text), MinuteUnits)))
      [] r = 3 -> Returns(MinusSeconds(t, 3600 * NumberBefore(Lower(text), HourUnits)))
      [] r = 4 -> Returns(MinusSeconds(t, 86400))
      [] r = 5 -> ParseToday(text, t)
      [] r = 6 -> Returns(MinusSeconds(t, 86400 * NumberBefore(Lower(text), DayUnits)))
      [] r = 7 -> Returns(MinusSeconds(t, 604800 * NumberBefore(Lower(text), WeekUnits)))
      [] r = 8 -> Returns(MinusMonths(t, NumberBefore(Lower(text), MonthUnits)))
      [] r = 9 -> Returns(MinusYears(t, NumberBefore(Lower(text), YearUnits)))
      [] r = 10 -> ParseZhDate(text)
      [] OTHER -> IF du.raises THEN Returns(t) ELSE Returns(du.dt)

\* The first rule, in the order above, that applies to text.
FirstRule(text) ==
    CHOOSE r \in 1..11 :
        /\ RuleApplies(r, text)
        /\ \A q \in 1..(r - 1) : ~RuleApplies(q, text)

\* C33: the outcome of parse_instagram_timestamp is what the first rule
\* that applies gives, in the order seconds / just now, minutes, hours,
\* yesterday, today, days, weeks, months, years, explicit date, generic
\* parser; on a full <year>nian<month>yue<day>ri date the months and years
\* rules do not apply, and "2024<nian>1<yue>5<ri>" is parsed as 2024-01-05
\* (at 10:30 when " 10:30" follows).
C33_FirstRuleWins ==
    ParseCalled =>
        /\ parsed = RuleGives(FirstRule(timestamp_text), timestamp_text, now, dateutil)
        /\ HasZhDate(timestamp_text) => FirstRule(timestamp_text) \in {10, 11}
        /\ timestamp_text = <<"2", "0", "2", "4", "zh_nian", "1", "zh_yue", "5", "zh_ri">>
              => parsed = Returns(DateTime(2024, 1, 5, 0, 0, 0))
        /\ timestamp_text = <<"2", "0", "2", "4", "zh_nian", "1", "zh_yue", "5", "zh_ri",
                              " ", "1", "0", ":", "3", "0">>
              => parsed = Returns(DateTime(2024, 1, 5, 10, 30, 0))

\* C33 witness: "3 days 2 hours" is parsed by the hours rule, which comes
\* before the days rule: two hours before now.
C33_Witness ==
    /\ timestamp_text = <<"3", " ", "d", "a", "y", "s", " ", "2", " ", "h", "o", "u", "r", "s">>
    /\ now = DateTime(2024, 1, 10, 12, 0, 0)
    /\ parsed = Returns(DateTime(2024, 1, 10, 10, 0, 0))

\* "2 years 3 months" is parsed by the months rule: 2023-10-10T12:00:00.
C33_WitnessMonths ==
    /\ timestamp_text = <<"2", " ", "y", "e", "a", "r", "s", " ", "3", " ",
                          "m", "o", "n", "t", "h", "s">>
    /\ now = DateTime(2024, 1, 10, 12, 0, 0)
    /\ parsed = Returns(DateTime(2023, 10, 10, 12, 0, 0))

(***************************************************************************)
(* The URL taken from an image node (specification SpecChoice).            *)
(***************************************************************************)

UrlTaken ==
    url_taken \notin {<<"p", "e", "n", "d", "i", "n", "g">>, <<"o", "f", "f">>}

\* The srcset of the node ends with a candidate (it is not absent, empty,
\* blank, or closed by a trailing comma).
SrcsetYieldsUrl(node) ==
    /\ node.srcset # NoneText
    /\ node.candidates # <<>>
    /\ node.style # "trailing"

\* C34: the URL taken for an image node is the URL of the last candidate
\* of its srcset when the attribute is present and yields one, whatever
\* the blanks and descriptors around it; otherwise the src attribute when
\* it is present and not empty; otherwise none, and then image_urls is
\* left as it was.  A URL taken for the first image is appended.
C34_SrcsetLastElseSrc ==
    UrlTaken =>
        /\ SrcsetYieldsUrl(image_node)
              => url_taken = image_node.candidates[Len(image_node.candidates)].url
        /\ ~SrcsetYieldsUrl(image_node) /\ image_node.src \notin {NoneText, <<>>}
              => url_taken = image_node.src
        /\ ~SrcsetYieldsUrl(image_node) /\ image_node.src \in {NoneText, <<>>}
              => url_taken = NoneText /\ collected.after = collected.before
        /\ call_site = "first" /\ url_taken # NoneText
              => collected.after = <<url_taken>>

\* C34 witness: from " url1 1x ,  url2 2x " the URL "url2" is taken,
\* although the node has a src, and appended in the loop.
C34_Witness ==
    /\ UrlTaken
    /\ image_node.srcset = <<" ", "u", "r", "l", "1", " ", "1", "x", " ", ",", " ", " ",
                             "u", "r", "l", "2", " ", "2", "x", " ">>
    /\ image_node.src = <<"s", "r", "c">>
    /\ call_site = "loop"
    /\ url_taken = <<"u", "r", "l", "2">>
    /\ collected.before = << <<"u", "r", "l", "1">> >>
    /\ collected.after = << <<"u", "r", "l", "1">>, <<"u", "r", "l", "2">> >>

\* An empty srcset and a src: the src is taken.
C34_WitnessSrc ==
    /\ UrlTaken
    /\ image_node.srcset = <<>>
    /\ url_taken = <<"s", "r", "c">>
    /\ collected.after = <<url_taken>>

\* Neither attribute gives a URL: nothing is appended.
C34_WitnessNone ==
    /\ UrlTaken
    /\ image_node.srcset = NoneText
    /\ image_node.src = NoneText
    /\ url_taken = NoneText
    /\ call_site = "loop"
    /\ collected.before # <<>>

(***************************************************************************)
(* Termination of the traversal (specification SpecCarouselLive).          *)
(***************************************************************************)

\* _extract_image_urls has returned its list.
CarouselOver == cpc \in {"done", "caught"}

\* C37: every call of _extract_image_urls returns, and at no point has the
\* 'next' control been clicked more than 9 times, also for a post whose
\* control never disappears and whose images give no new URL.
C37_CarouselTerminates ==
    /\ <>CarouselOver
    /\ [](step <= max_images - 1)

\* C37 witness: a post of one image whose control never disappears: the
\* control was clicked 9 times, no second URL was found, and the list was
\* returned.
C37_Witness ==
    /\ cpc = "done"
    /\ carousel.len = 1 /\ carousel.wraps
    /\ step = max_images - 1
    /\ Len(image_urls) = 1

(***************************************************************************)
(* Letter case of the display text (specification SpecRecency).            *)
(***************************************************************************)

\* C38 (as claimed): the verdict of is_within_hours does not depend on the
\* letter case of the display text: for every text it is the verdict that
\* the lower-cased text gets for the same instant and threshold.
C38_CaseIndependent ==
    Called =>
        verdict = is_within_hours(timestamp, hours_threshold,
                                  Lower(timestamp_text))

(***************************************************************************)
(* False matches of _is_pinned_post (specification SpecMatch).             *)
(***************************************************************************)

\* The ID segment of an identifier: what follows /p/ or /reel/ up to the
\* next slash, and the identifier itself when it has neither.
IdSegment(text) ==
    IF Contains(text, SlashP) THEN IdAfter(text, SlashP)
    ELSE IF Contains(text, SlashReel) THEN IdAfter(text, SlashReel)
    ELSE text

\* No entry of pinned_list has the ID segment of candidate_href.
NoPinnedId ==
    \A k \in 1..Len(pinned_list) :
        IdSegment(pinned_list[k]) # IdSegment(candidate_href)

\* C39 (as claimed): _is_pinned_post returns False for a candidate whose ID
\* segment differs from the ID segment of every entry of pinned_posts, also
\* when one ID is a proper prefix of the other and the href has no closing
\* slash.
C39_NoFalseMatch ==
    MatchCalled /\ candidate_href # <<>> /\ NoPinnedId => is_pinned = "False"

====
